---- MODULE Spec2Model ----
(***************************************************************************)
(* One Word: the experiment runner (src/src/lib/runner.ts) with the        *)
(* provider registry and the storage manager it drives.                    *)
(*                                                                         *)
(* Every asynchronous function of the runner is a task whose position      *)
(* (pc) is the await it is suspended at; one action is the synchronous     *)
(* code between two awaits.  Money is counted in units of 1e-8 dollar,     *)
(* temperatures in hundredths, percentages as exact fractions <<n, d>>.    *)
(***************************************************************************)
EXTENDS Integers, Sequences, FiniteSets, TLC

\* an optional value is << >> (absent) or << v >>
Null == << >>

\* ---------------------------------------------------------------- bounds
MaxRuns == 3
MaxAborts == 1
MaxTotalCalls == 2
MaxIssuedCalls == 2
MaxStorageFailures == 2
MaxRequests == 3
TickMs == 500
Epoch == 2000
MaxTime == 3000
MaxSamples == 2
MaxSnapshots == 2
MaxAggregated == 4
MaxAggregations == 2
MaxRangeMax == 30
MaxSteps == 8
MaxCreations == 2
MaxTextLen == 4
MaxPushed == 12
MaxReplaced == 1

\* ------------------------------------------------------- provider catalogue
\* the catalogued models used here, prices per 1k tokens in units of 1e-8 dollar
\* per token
PROVIDER_DATA ==
    ("gpt-4o" :> [providerId |-> "openai", name |-> "GPT-4o",
                  inputCostPer1k |-> 250, outputCostPer1k |-> 1000]) @@
    ("o1" :> [providerId |-> "openai", name |-> "o1",
              inputCostPer1k |-> 1500, outputCostPer1k |-> 6000]) @@
    ("moonshot-v1-8k" :> [providerId |-> "kimi", name |-> "Moonshot v1 8K",
                          inputCostPer1k |-> 100, outputCostPer1k |-> 200]) @@
    ("moonshot-v1-128k" :> [providerId |-> "kimi", name |-> "Moonshot v1 128K",
                            inputCostPer1k |-> 600, outputCostPer1k |-> 1200])

ProviderIds == {"openai", "kimi"}

findModelById(modelId) ==
    IF modelId \in DOMAIN PROVIDER_DATA THEN << PROVIDER_DATA[modelId] >> ELSE Null

\* per-provider price tables, per 1k tokens, in units of 1e-8 dollar per token
modelPricing ==
    ("openai" :> ("gpt-4o" :> [input |-> 250, output |-> 1000])) @@
    ("kimi" :> (("moonshot-v1-8k" :> [input |-> 100, output |-> 200]) @@
                ("moonshot-v1-128k" :> [input |-> 500, output |-> 1000])))

estimateCost(providerId, model, inputTokens, outputTokens) ==
    IF providerId \notin DOMAIN modelPricing THEN 0
    ELSE IF model \notin DOMAIN modelPricing[providerId] THEN 0
    ELSE inputTokens * modelPricing[providerId][model].input
         + outputTokens * modelPricing[providerId][model].output

\* Math.ceil(n / 4)
CeilDiv4(n) == (n + 3) \div 4

\* ------------------------------------------------------------- inputs
Words == {"yes", "no"}

Configs == << [temperature |-> 70, topK |-> 40],
             [temperature |-> 100, topK |-> 40],
             [temperature |-> 100, topK |-> 50] >>

StimulusLength == 9

\* the credential maps handed to start(): "" is an absent or empty entry
KeyMaps ==
    {[p \in ProviderIds |-> ""],
     [p \in ProviderIds |-> IF p = "kimi" THEN "sk-key" ELSE ""],
     [p \in ProviderIds |-> "sk-key"]}

\* the selections handed to the runner: listed models, and one the catalogue lacks
ModelLists ==
    {<< "gpt-4o" >>,
     << "unlisted-model" >>,
     << "gpt-4o", "moonshot-v1-8k" >>,
     << "unlisted-model", "gpt-4o" >>,
     << "gpt-4o", "unlisted-model", "moonshot-v1-8k" >>}

Min(a, b) == IF a < b THEN a ELSE b

\* the experiments the orchestration layer can hand to the runner
ExperimentShapes ==
    {sh \in [selectedModels : ModelLists,
             configs : {SubSeq(Configs, 1, n) : n \in 1..Min(Len(Configs), MaxTotalCalls)},
             samplesPerConfig : 1..MaxTotalCalls] :
        Len(sh.selectedModels) * Len(sh.configs) * sh.samplesPerConfig <= MaxTotalCalls}

Ids == {"e1"}

\* new Date().toISOString(): the value of a timestamp is not modelled
Date == "date"

Terminal == {"completed", "failed", "cancelled"}

\* ------------------------------------------------------------ aggregation
RECURSIVE SumCost(_)
SumCost(samples) ==
    IF samples = << >> THEN 0
    ELSE samples[1].cost + SumCost(Tail(samples))

RECURSIVE FirstOccurrences(_, _)
\* the keys of a Map filled in sample order: distinct values, first occurrence first
FirstOccurrences(values, seen) ==
    IF values = << >> THEN << >>
    ELSE IF values[1] \in seen THEN FirstOccurrences(Tail(values), seen)
    ELSE << values[1] >> \o FirstOccurrences(Tail(values), seen \cup {values[1]})

\* the count of a word is set to 1 at every occurrence instead of incremented
CountWordOnce(samples, w) == 1

\* wordCounts.get(w) once every sample has been visited
CountWord(samples, w) == Cardinality({i \in 1..Len(samples) : samples[i].word = w})

RECURSIVE InsertByCount(_, _), InsertByCountUnstable(_, _)
\* an unstable sort: f overtakes the entries of equal count
InsertByCountUnstable(sorted, f) ==
    IF sorted = << >> THEN << f >>
    ELSE IF sorted[1].count > f.count THEN << sorted[1] >> \o InsertByCountUnstable(Tail(sorted), f)
    ELSE << f >> \o sorted

\* insert f after every entry whose count is >= f.count (stable, descending)
InsertByCount(sorted, f) ==
    IF sorted = << >> THEN << f >>
    ELSE IF sorted[1].count >= f.count THEN << sorted[1] >> \o InsertByCount(Tail(sorted), f)
    ELSE << f >> \o sorted

RECURSIVE SortByCountDesc(_)
SortByCountDesc(fs) ==
    IF fs = << >> THEN << >>
    ELSE InsertByCount(SortByCountDesc(SubSeq(fs, 1, Len(fs) - 1)), fs[Len(fs)])

WordFrequencies(samples) ==
    LET words == FirstOccurrences([i \in 1..Len(samples) |-> samples[i].word], {})
    IN  SortByCountDesc([k \in 1..Len(words) |->
            [word |-> words[k],
             count |-> CountWord(samples, words[k]),
             percentage |-> << CountWord(samples, words[k]) * 100, Len(samples) >>]])

\* 1000 * log2(k), rounded, for k = 1..8
Log2Milli == << 0, 1000, 1585, 2000, 2322, 2585, 2807, 3000 >>

RECURSIVE EntropyTerms(_, _), EntropyTermsOfCounts(_, _)
\* the logarithm is taken of the count instead of the probability
EntropyTermsOfCounts(fs, total) ==
    IF fs = << >> THEN 0
    ELSE fs[1].count * Log2Milli[fs[1].count] + EntropyTermsOfCounts(Tail(fs), total)

\* total * -sum p log2 p, with log2 p = log2 count - log2 total
EntropyTerms(fs, total) ==
    IF fs = << >> THEN 0
    ELSE fs[1].count * (Log2Milli[total] - Log2Milli[fs[1].count]) + EntropyTerms(Tail(fs), total)

\* the probabilities are taken before the list is looked at: 0 / 0 is not a
\* number (-1 here) for the empty list
EntropyDividingFirst(fs, total) == IF total = 0 THEN -1 ELSE EntropyTerms(fs, total) \div total

\* -sum p log2 p in thousandths of a bit, p = count / total; the reduce over an
\* empty topWords returns its initial value 0 and divides nothing
Entropy(fs, total) == IF total = 0 THEN 0 ELSE EntropyTerms(fs, total) \div total

generateResults(experimentId, samples) ==
    LET topWords == WordFrequencies(samples)
        models == FirstOccurrences([i \in 1..Len(samples) |-> samples[i].modelId], {})
        temps == {samples[i].temperature : i \in 1..Len(samples)}
        OfModel(m) == LET P(s) == s.modelId = m IN SelectSeq(samples, P)
        OfTemp(t) == LET P(s) == s.temperature = t IN SelectSeq(samples, P)
    IN  [experimentId |-> experimentId,
         totalSamples |-> Len(samples),
         uniqueWords |-> Len(topWords),
         topWords |-> topWords,
         entropy |-> Entropy(topWords, Len(samples)),
         byModel |-> [k \in 1..Len(models) |->
             [modelId |-> models[k],
              config |-> [temperature |-> OfModel(models[k])[1].temperature,
                          topK |-> OfModel(models[k])[1].topK],
              words |-> WordFrequencies(OfModel(models[k])),
              totalSamples |-> Len(OfModel(models[k])),
              uniqueWords |-> Len(WordFrequencies(OfModel(models[k])))]],
         byTemperature |-> [t \in temps |-> WordFrequencies(OfTemp(t))]]

\* ------------------------------------------------------------------ state
VARIABLES
    experiment,          \* id -> the Experiment object handed to start()
    runningExperiments,  \* id -> index in runs of its RunningExperiment, 0 when absent
    runs,                \* every RunningExperiment created, with the task driving it
    aborts,              \* every accepted abort() call and the await it is at
    dbExperiments,       \* IndexedDB store 'experiments'
    dbSamples,           \* IndexedDB store 'samples'
    dbResults,           \* IndexedDB store 'results'
    thrown,              \* the error the last step threw to its caller, Null when none
    used                 \* provider calls issued and storage rejections so far

runnerVars == << experiment, runningExperiments, runs, aborts,
                 dbExperiments, dbSamples, dbResults, thrown, used >>

VARIABLES
    submissions          \* the calls of autoSubmitExperiment made so far


VARIABLES
    queue,               \* RateLimiter.queue: the requests not yet taken by a drain loop
    processing,          \* RateLimiter.processing
    interval,            \* RateLimiter.interval, in ms
    lastRequestTime,     \* RateLimiter.lastRequestTime
    loops,               \* the processQueue() invocations suspended at an await
    now,                 \* Date.now()
    requests,            \* every request handed to enqueue(), in submission order
    startOrder,          \* the requests whose fn was invoked, in invocation order
    replacedLimiters             \* the RateLimiter instances setRateLimit() took out of the registry

limiterVars == << queue, processing, interval, lastRequestTime, loops, now,
                  requests, startOrder, replacedLimiters >>

VARIABLES
    arrays,              \* the recentWords arrays allocated so far, by address
    objects,             \* the config objects allocated so far, by address
    progressObj,         \* RunningExperiment.progress of one running experiment
    snapshots            \* the objects returned by getProgress() so far

snapshotVars == << arrays, objects, progressObj, snapshots >>

VARIABLES
    input,               \* the arguments of a function under study
    output               \* what it returned, Null before the call

pureVars == << input, output >>

VARIABLES
    currentExperiment,   \* App state: the Experiment object last given to setCurrentExperiment
    runProgress          \* App state: what the polling effect last read

appVars == << currentExperiment, runProgress >>

vars == << runnerVars, submissions, limiterVars, snapshotVars, pureVars, appVars >>

outsideRunner == << limiterVars, snapshotVars, pureVars, appVars >>

outsideLimiter == << runnerVars, submissions, snapshotVars, pureVars, appVars >>

outsideSnapshot == << runnerVars, submissions, limiterVars, pureVars, appVars >>

outsidePure == << runnerVars, submissions, limiterVars, snapshotVars, appVars >>

\* useState(null) for currentExperiment and runProgress
NoApplication ==
    /\ currentExperiment = Null
    /\ runProgress = Null

\* no progress object under study, no function call under study
NoSnapshots ==
    /\ arrays = << >>
    /\ objects = << >>
    /\ progressObj = Null
    /\ snapshots = << >>

NoCall ==
    /\ input = Null
    /\ output = Null

NewExperiment(sh) ==
    [selectedModels |-> sh.selectedModels,
     configs |-> sh.configs,
     samplesPerConfig |-> sh.samplesPerConfig,
     stimulusLength |-> StimulusLength,
     totalCalls |-> Len(sh.selectedModels) * Len(sh.configs) * sh.samplesPerConfig,
     status |-> "pending",
     startedAt |-> Null,
     completedAt |-> Null,
     actualCost |-> Null,
     progress |-> Null]

DefaultRequestsPerMinute == 60

RateLimiter(requestsPerMinute) ==
    /\ queue = << >>
    /\ processing = FALSE
    /\ interval = 60000 \div requestsPerMinute
    /\ lastRequestTime = 0
    /\ loops = << >>
    /\ now = Epoch
    /\ requests = << >>
    /\ startOrder = << >>
    /\ replacedLimiters = << >>

Init ==
    /\ experiment \in [Ids -> {NewExperiment(sh) : sh \in ExperimentShapes}]
    /\ runningExperiments = [e \in Ids |-> 0]
    /\ runs = << >>
    /\ aborts = << >>
    /\ dbExperiments = [e \in Ids |-> << experiment[e] >>]
    /\ dbSamples = << >>
    /\ dbResults = [e \in Ids |-> Null]
    /\ thrown = Null
    /\ used = [calls |-> 0, storageFailures |-> 0]
    /\ submissions = << >>
    /\ RateLimiter(DefaultRequestsPerMinute)
    /\ NoApplication
    /\ NoSnapshots
    /\ NoCall

EndedPcs == {"start_failed", "stopped", "completed", "orphaned", "failed", "error_dropped", "crashed", "collected"}

\* ------------------------------------------------------ the execution loop
requiredProviders(exp) ==
    {findModelById(exp.selectedModels[k])[1].providerId :
        k \in {j \in 1..Len(exp.selectedModels) : findModelById(exp.selectedModels[j]) # Null}}

\* every registered provider without a key, required by the experiment or not
missingKeysOfAll(exp, apiKeys) == {p \in ProviderIds : apiKeys[p] = ""}

missingKeys(exp, apiKeys) == {p \in requiredProviders(exp) : apiKeys[p] = ""}

\* the three places where the loop reads abortController.signal.aborted
AbortedAtModel(run) == run.aborted

AbortedAtConfig(run) == run.aborted

\* the repetition loop without its check of the signal
AbortedAtRepetitionIgnored(run) == FALSE

AbortedAtRepetition(run) == run.aborted

\* a model the loop does not skip: found in the catalogue, with a key
Usable(exp, apiKeys, m) ==
    /\ findModelById(exp.selectedModels[m]) # Null
    /\ apiKeys[findModelById(exp.selectedModels[m])[1].providerId] # ""

RECURSIVE ModelLoop(_, _, _), ConfigLoop(_, _, _, _), RepetitionLoop(_, _, _, _, _)
\* the position << m, c, i >> of the next provider call, or Null when the loops are left;
\* each operator stands at the top of its loop, about to take the given index
ModelLoop(exp, run, m) ==
    IF m <= Len(exp.selectedModels) /\ ~AbortedAtModel(run)
    THEN IF Usable(exp, run.apiKeys, m) THEN ConfigLoop(exp, run, m, 1)
         ELSE ModelLoop(exp, run, m + 1)
    ELSE Null

\* the config loop leaving after its first config
ConfigLoopFirstOnly(exp, run, m, c) ==
    IF c <= 1 /\ ~AbortedAtConfig(run)
    THEN RepetitionLoop(exp, run, m, c, 1)
    ELSE ModelLoop(exp, run, m + 1)

ConfigLoop(exp, run, m, c) ==
    IF c <= Len(exp.configs) /\ ~AbortedAtConfig(run)
    THEN RepetitionLoop(exp, run, m, c, 1)
    ELSE ModelLoop(exp, run, m + 1)

\* the repetition loop running one repetition too many
RepetitionLoopOffByOne(exp, run, m, c, i) ==
    IF i <= exp.samplesPerConfig + 1 /\ ~AbortedAtRepetition(run)
    THEN << m, c, i >>
    ELSE ConfigLoop(exp, run, m, c + 1)

RepetitionLoop(exp, run, m, c, i) ==
    IF i <= exp.samplesPerConfig /\ ~AbortedAtRepetition(run)
    THEN << m, c, i >>
    ELSE ConfigLoop(exp, run, m, c + 1)

\* providers.sample is called for position pos
IssueCall(exp, run, pos) ==
    [run EXCEPT !.pc = "sampling",
                !.m = pos[1], !.c = pos[2], !.i = pos[3],
                !.progress.currentModel = findModelById(exp.selectedModels[pos[1]])[1].name,
                !.progress.currentConfig = exp.configs[pos[2]],
                !.calls = @ + 1]

AwaitingInComplete == {"complete_save_experiment", "complete_save_results"}

AwaitingInHandleError == {"error_save_experiment", "error_save_results"}

AwaitingInAbort == {"save_experiment", "save_results"}

\* a RunningExperiment some task or the map still holds a reference to
Referenced(rs, map, calls, r) ==
    \/ rs[r].pc \notin EndedPcs
    \/ \E e \in DOMAIN map : map[e] = r
    \/ \E a \in DOMAIN calls : calls[a].pc \in AwaitingInAbort /\ calls[a].run = r
    \/ \E q \in DOMAIN rs : rs[q].pc \in AwaitingInComplete \cup AwaitingInHandleError /\ rs[q].target = r

\* what is left of a RunningExperiment nothing refers to any more
Collected(run) ==
    [experimentId |-> run.experimentId,
     apiKeys |-> [p \in ProviderIds |-> ""],
     aborted |-> FALSE,
     progress |-> [totalCalls |-> 0, completedCalls |-> 0, currentModel |-> "",
                   currentConfig |-> [temperature |-> 0, topK |-> 0],
                   runningCost |-> 0, recentWords |-> << >>],
     samples |-> << >>,
     pc |-> "collected",
     m |-> 0, c |-> 0, i |-> 0,
     sample |-> Null, put |-> Null, results |-> Null,
     target |-> 0, calls |-> 0, failedCalls |-> 0, failedSaves |-> 0]

Sweep(rs, map, calls) ==
    [r \in DOMAIN rs |-> IF Referenced(rs, map, calls, r) THEN rs[r] ELSE Collected(rs[r])]

\* the last conjunct of a step: run r is left as given, unreachable objects are dropped
SetRun(r, run) == runs' = Sweep([runs EXCEPT ![r] = run], runningExperiments', aborts')

\* what is left of an abort() call once its promise has settled
Settled(call, outcome) ==
    [experimentId |-> call.experimentId, run |-> 0, pc |-> outcome,
     put |-> Null, results |-> Null, k |-> 0]

\* completeExperiment up to its first await
completeExperiment(r, run) ==
    LET id == run.experimentId
        target == runningExperiments[id]
        samples == IF target = r THEN run.samples ELSE runs[target].samples
    IN  IF target = 0
        THEN /\ UNCHANGED experiment
             /\ SetRun(r, [run EXCEPT !.pc = "orphaned"])
        ELSE /\ experiment' = [experiment EXCEPT
                    ![id].status = "completed",
                    ![id].completedAt = << Date >>,
                    ![id].actualCost = << SumCost(samples) >>,
                    ![id].progress = << 100 >>]
             /\ SetRun(r, [run EXCEPT !.pc = "complete_save_experiment",
                                      !.target = target,
                                      !.put = << experiment'[id] >>])

\* handleError up to its first await
handleError(r, run) ==
    LET id == run.experimentId
        target == runningExperiments[id]
        samples == IF target = r THEN run.samples ELSE runs[target].samples
    IN  IF target = 0
        THEN /\ UNCHANGED experiment
             /\ SetRun(r, [run EXCEPT !.pc = "error_dropped", !.put = Null])
        ELSE /\ experiment' = [experiment EXCEPT
                    ![id].status = "failed",
                    ![id].completedAt = << Date >>,
                    ![id].actualCost = << SumCost(samples) >>]
             /\ SetRun(r, [run EXCEPT !.pc = "error_save_experiment",
                                      !.target = target,
                                      !.put = << experiment'[id] >>])

\* the loop runs on from position pos (Null: the loops are left) to its next await
Proceed(r, run, pos, u) ==
    IF pos # Null
    THEN /\ u.calls < MaxIssuedCalls
         /\ used' = [u EXCEPT !.calls = @ + 1]
         /\ UNCHANGED experiment
         /\ SetRun(r, IssueCall(experiment[run.experimentId], run, pos))
    ELSE /\ used' = u
         /\ IF ~run.aborted
            THEN completeExperiment(r, run)
            ELSE /\ UNCHANGED experiment
                 /\ SetRun(r, [run EXCEPT !.pc = "stopped"])

\* a storage call may still reject
MayReject == used.storageFailures < MaxStorageFailures

Rejected(u) == [u EXCEPT !.storageFailures = @ + 1]

\* ------------------------------------------------------------------ start
NewRun(e, apiKeys, exp) ==
    [experimentId |-> e,
     apiKeys |-> apiKeys,
     aborted |-> FALSE,
     progress |-> [totalCalls |-> exp.totalCalls,
                   completedCalls |-> 0,
                   currentModel |-> "",
                   currentConfig |-> [temperature |-> 0, topK |-> 0],
                   runningCost |-> 0,
                   recentWords |-> << >>],
     samples |-> << >>,
     pc |-> "start_save",
     m |-> 0, c |-> 0, i |-> 0,
     sample |-> Null,
     put |-> << exp >>,
     results |-> Null,
     target |-> 0,
     calls |-> 0,
     failedCalls |-> 0,
     failedSaves |-> 0]

\* start() without the check of the running set
startUnchecked(e, apiKeys) ==
    IF missingKeys(experiment[e], apiKeys) # {}
    THEN /\ thrown' = << [op |-> "start", id |-> e, error |-> "MissingCredentials",
                          missing |-> missingKeys(experiment[e], apiKeys)] >>
         /\ UNCHANGED << experiment, runningExperiments, runs, aborts,
                         dbExperiments, dbSamples, dbResults, used >>
    ELSE /\ Len(runs) < MaxRuns
         /\ runningExperiments' = [runningExperiments EXCEPT ![e] = Len(runs) + 1]
         /\ experiment' = [experiment EXCEPT ![e].status = "running",
                                             ![e].startedAt = << Date >>]
         /\ UNCHANGED << aborts, dbExperiments, dbSamples, dbResults >>
         /\ thrown' = Null
         /\ UNCHANGED used
         /\ runs' = Sweep(Append(runs, NewRun(e, apiKeys, experiment'[e])),
                          runningExperiments', aborts')

start(e, apiKeys) ==
    IF runningExperiments[e] # 0
    THEN /\ thrown' = << [op |-> "start", id |-> e, error |-> "AlreadyRunning", missing |-> {}] >>
         /\ UNCHANGED << experiment, runningExperiments, runs, aborts,
                         dbExperiments, dbSamples, dbResults, used >>
    ELSE IF missingKeys(experiment[e], apiKeys) # {}
    THEN /\ thrown' = << [op |-> "start", id |-> e, error |-> "MissingCredentials",
                          missing |-> missingKeys(experiment[e], apiKeys)] >>
         /\ UNCHANGED << experiment, runningExperiments, runs, aborts,
                         dbExperiments, dbSamples, dbResults, used >>
    ELSE /\ Len(runs) < MaxRuns
         /\ runningExperiments' = [runningExperiments EXCEPT ![e] = Len(runs) + 1]
         /\ experiment' = [experiment EXCEPT ![e].status = "running",
                                             ![e].startedAt = << Date >>]
         /\ UNCHANGED << aborts, dbExperiments, dbSamples, dbResults >>
         /\ thrown' = Null
         /\ UNCHANGED used
         /\ runs' = Sweep(Append(runs, NewRun(e, apiKeys, experiment'[e])),
                          runningExperiments', aborts')

\* storage.saveExperiment resolves in start(): executeExperiment is launched
startSaved(r) ==
    /\ runs[r].pc = "start_save"
    /\ dbExperiments' = [dbExperiments EXCEPT ![runs[r].experimentId] = runs[r].put]
    /\ UNCHANGED << runningExperiments, aborts, dbSamples, dbResults >>
    /\ thrown' = Null
    /\ LET run == [runs[r] EXCEPT !.put = Null]
       IN  Proceed(r, run, ModelLoop(experiment[run.experimentId], run, 1), used)

\* storage.saveExperiment rejects in start(): start() rejects, nothing is launched
startSaveFailed(r) ==
    /\ runs[r].pc = "start_save"
    /\ MayReject
    /\ UNCHANGED << experiment, runningExperiments, aborts,
                    dbExperiments, dbSamples, dbResults >>
    /\ thrown' = Null
    /\ used' = Rejected(used)
    /\ SetRun(r, [runs[r] EXCEPT !.pc = "start_failed", !.put = Null])

\* ------------------------------------------------ executeSamplesForConfig
\* providers.sample resolves with a word: the Sample is built, saveSample is called
sampleResolved(r, word) ==
    LET run == runs[r]
        exp == experiment[run.experimentId]
        modelId == exp.selectedModels[run.m]
        config == exp.configs[run.c]
        cost == estimateCost(findModelById(modelId)[1].providerId, modelId,
                             CeilDiv4(exp.stimulusLength), 1)
    IN  /\ run.pc = "sampling"
        /\ UNCHANGED << experiment, runningExperiments, aborts,
                        dbExperiments, dbSamples, dbResults >>
        /\ thrown' = Null
        /\ UNCHANGED used
        /\ SetRun(r, [run EXCEPT !.pc = "save_sample",
                                 !.sample = << [experimentId |-> run.experimentId,
                                                modelId |-> modelId,
                                                temperature |-> config.temperature,
                                                topK |-> config.topK,
                                                word |-> word,
                                                cost |-> cost] >>])

\* providers.sample rejects and the rejection leaves the repetition's try block
sampleRejectedEscalates(r) ==
    /\ runs[r].pc = "sampling"
    /\ UNCHANGED << runningExperiments, aborts, dbExperiments, dbSamples, dbResults >>
    /\ thrown' = Null
    /\ UNCHANGED used
    /\ handleError(r, [runs[r] EXCEPT !.failedCalls = @ + 1])

\* providers.sample rejects: caught inside the repetition, the loop goes on
sampleRejected(r) ==
    LET run == [runs[r] EXCEPT !.failedCalls = @ + 1]
    IN  /\ runs[r].pc = "sampling"
        /\ UNCHANGED << runningExperiments, aborts, dbExperiments, dbSamples, dbResults >>
        /\ thrown' = Null
        /\ Proceed(r, run, RepetitionLoop(experiment[run.experimentId], run, run.m, run.c, run.i + 1), used)

\* the slice is one too long: [word, ...progress.recentWords.slice(0, 10)]
pushRecentWordSlice10(recentWords, word) ==
    << word >> \o SubSeq(recentWords, 1, IF Len(recentWords) < 10 THEN Len(recentWords) ELSE 10)

\* progress.recentWords = [word, ...progress.recentWords.slice(0, 9)]
pushRecentWord(recentWords, word) ==
    << word >> \o SubSeq(recentWords, 1, IF Len(recentWords) < 9 THEN Len(recentWords) ELSE 9)

\* storage.saveSample resolves: the sample is pushed, progress updated, the pause begins
sampleSaved(r) ==
    LET run == runs[r]
        sample == run.sample[1]
    IN  /\ run.pc = "save_sample"
        /\ dbSamples' = Append(dbSamples, sample)
        /\ UNCHANGED << experiment, runningExperiments, aborts, dbExperiments, dbResults >>
        /\ thrown' = Null
        /\ UNCHANGED used
        /\ SetRun(r, [run EXCEPT !.pc = "pause",
                                 !.sample = Null,
                                 !.samples = Append(@, sample),
                                 !.progress.completedCalls = @ + 1,
                                 !.progress.runningCost = @ + sample.cost,
                                 !.progress.recentWords = pushRecentWord(@, sample.word)])

\* a rejected storage.saveSample that is logged and otherwise ignored
sampleSaveFailedKeepsSample(r) ==
    LET run == runs[r]
        sample == run.sample[1]
    IN  /\ run.pc = "save_sample"
        /\ MayReject
        /\ UNCHANGED << experiment, runningExperiments, aborts, dbExperiments, dbSamples, dbResults >>
        /\ thrown' = Null
        /\ used' = Rejected(used)
        /\ SetRun(r, [run EXCEPT !.pc = "pause",
                                 !.sample = Null,
                                 !.failedSaves = @ + 1,
                                 !.samples = Append(@, sample),
                                 !.progress.completedCalls = @ + 1,
                                 !.progress.runningCost = @ + sample.cost,
                                 !.progress.recentWords = pushRecentWord(@, sample.word)])

\* storage.saveSample rejects: caught inside the repetition, the loop goes on
sampleSaveFailed(r) ==
    LET run == [runs[r] EXCEPT !.sample = Null, !.failedSaves = @ + 1]
    IN  /\ runs[r].pc = "save_sample"
        /\ MayReject
        /\ UNCHANGED << runningExperiments, aborts, dbExperiments, dbSamples, dbResults >>
        /\ thrown' = Null
        /\ Proceed(r, run, RepetitionLoop(experiment[run.experimentId], run, run.m, run.c, run.i + 1), Rejected(used))

\* the 100 ms pause after a sample is over
pauseElapsed(r) ==
    LET run == runs[r]
    IN  /\ run.pc = "pause"
        /\ UNCHANGED << runningExperiments, aborts, dbExperiments, dbSamples, dbResults >>
        /\ thrown' = Null
        /\ Proceed(r, run, RepetitionLoop(experiment[run.experimentId], run, run.m, run.c, run.i + 1), used)

\* ------------------------------------------------------ completeExperiment
\* saveExperiment resolves in completeExperiment: results are generated and saved
completeExperimentSaved(r) ==
    LET run == runs[r]
    IN  /\ run.pc = "complete_save_experiment"
        /\ dbExperiments' = [dbExperiments EXCEPT ![run.experimentId] = run.put]
        /\ UNCHANGED << experiment, runningExperiments, aborts, dbSamples, dbResults >>
        /\ thrown' = Null
        /\ UNCHANGED used
        /\ SetRun(r, [run EXCEPT !.pc = "complete_save_results",
                                 !.put = Null,
                                 !.results = << generateResults(run.experimentId,
                                                                runs[run.target].samples) >>])

\* autoSubmitExperiment up to its fetch: the request it sends, for which
\* experiment, and what the experiment's status was when it was called
autoSubmitExperiment(exp, results) ==
    [experimentId |-> results.experimentId,
     models |-> exp.selectedModels,
     samplesPerConfig |-> exp.samplesPerConfig,
     totalSamples |-> results.totalSamples,
     status |-> exp.status,
     pc |-> "fetch"]

\* the POST of a submission is answered with ok
submitResolved(s) ==
    /\ submissions[s].pc = "fetch"
    /\ submissions' = [submissions EXCEPT ![s].pc = "submitted"]
    /\ UNCHANGED runnerVars

\* the POST of a submission fails or is answered with an error: logged only
submitFailed(s) ==
    /\ submissions[s].pc = "fetch"
    /\ submissions' = [submissions EXCEPT ![s].pc = "failed"]
    /\ UNCHANGED runnerVars

\* saveResults resolves in completeExperiment and the entry is left in the map
completeResultsSavedKeepsEntry(r) ==
    LET run == runs[r]
    IN  /\ run.pc = "complete_save_results"
        /\ dbResults' = [dbResults EXCEPT ![run.experimentId] = run.results]
        /\ UNCHANGED << experiment, runningExperiments, aborts, dbExperiments, dbSamples >>
        /\ thrown' = Null
        /\ UNCHANGED used
        /\ submissions' = Append(submissions, autoSubmitExperiment(experiment[run.experimentId], run.results[1]))
        /\ SetRun(r, [run EXCEPT !.pc = "completed", !.results = Null])

\* saveResults resolves in completeExperiment: the entry is deleted
completeResultsSaved(r) ==
    LET run == runs[r]
    IN  /\ run.pc = "complete_save_results"
        /\ dbResults' = [dbResults EXCEPT ![run.experimentId] = run.results]
        /\ runningExperiments' = [runningExperiments EXCEPT ![run.experimentId] = 0]
        /\ UNCHANGED << experiment, aborts, dbExperiments, dbSamples >>
        /\ thrown' = Null
        /\ UNCHANGED used
        /\ submissions' = Append(submissions, autoSubmitExperiment(experiment[run.experimentId], run.results[1]))
        /\ SetRun(r, [run EXCEPT !.pc = "completed", !.results = Null])

\* a save rejects in completeExperiment: executeExperiment catches and calls handleError
completeFailed(r) ==
    /\ runs[r].pc \in AwaitingInComplete
    /\ MayReject
    /\ UNCHANGED << runningExperiments, aborts, dbExperiments, dbSamples, dbResults >>
    /\ thrown' = Null
    /\ used' = Rejected(used)
    /\ handleError(r, [runs[r] EXCEPT !.put = Null, !.results = Null])

\* ------------------------------------------------------------- handleError
\* saveExperiment resolves in handleError
handleErrorSaved(r) ==
    LET run == runs[r]
        samples == runs[run.target].samples
    IN  /\ run.pc = "error_save_experiment"
        /\ dbExperiments' = [dbExperiments EXCEPT ![run.experimentId] = run.put]
        /\ UNCHANGED << experiment, aborts, dbSamples, dbResults >>
        /\ thrown' = Null
        /\ UNCHANGED used
        /\ IF Len(samples) > 0
           THEN /\ UNCHANGED runningExperiments
                /\ SetRun(r, [run EXCEPT !.pc = "error_save_results",
                                         !.put = Null,
                                         !.results = << generateResults(run.experimentId, samples) >>])
           ELSE /\ runningExperiments' = [runningExperiments EXCEPT ![run.experimentId] = 0]
                /\ SetRun(r, [run EXCEPT !.pc = "failed", !.put = Null])

\* saveResults resolves in handleError: the entry is deleted
handleErrorResultsSaved(r) ==
    LET run == runs[r]
    IN  /\ run.pc = "error_save_results"
        /\ dbResults' = [dbResults EXCEPT ![run.experimentId] = run.results]
        /\ runningExperiments' = [runningExperiments EXCEPT ![run.experimentId] = 0]
        /\ UNCHANGED << experiment, aborts, dbExperiments, dbSamples >>
        /\ thrown' = Null
        /\ UNCHANGED used
        /\ SetRun(r, [run EXCEPT !.pc = "failed", !.results = Null])

\* a save rejects in handleError: its promise rejects unobserved, the entry stays
handleErrorFailed(r) ==
    /\ runs[r].pc \in AwaitingInHandleError
    /\ MayReject
    /\ UNCHANGED << experiment, runningExperiments, aborts,
                    dbExperiments, dbSamples, dbResults >>
    /\ thrown' = Null
    /\ used' = Rejected(used)
    /\ SetRun(r, [runs[r] EXCEPT !.pc = "crashed", !.put = Null, !.results = Null])

\* ------------------------------------------------------------------- abort
\* provider calls of a run that have resolved with a word
ResolvedCalls(run) == run.calls - run.failedCalls - (IF run.pc = "sampling" THEN 1 ELSE 0)

\* abort() marking the experiment cancelled before it looks the entry up
abortMarksFirst(e) ==
    LET r == runningExperiments[e]
    IN  IF r = 0
        THEN /\ experiment' = [experiment EXCEPT ![e].status = "cancelled"]
             /\ thrown' = << [op |-> "abort", id |-> e, error |-> "NotRunning", missing |-> {}] >>
             /\ UNCHANGED << runningExperiments, runs, aborts,
                             dbExperiments, dbSamples, dbResults, used >>
        ELSE /\ Len(aborts) < MaxAborts
             /\ experiment' = [experiment EXCEPT
                    ![e].status = "cancelled",
                    ![e].completedAt = << Date >>,
                    ![e].actualCost = << SumCost(runs[r].samples) >>]
             /\ aborts' = Append(aborts,
                    [experimentId |-> e,
                     run |-> r,
                     pc |-> "save_experiment",
                     put |-> << experiment'[e] >>,
                     results |-> Null,
                     k |-> runs[r].calls - runs[r].failedCalls
                               - (IF runs[r].pc = "sampling" THEN 1 ELSE 0)])
             /\ UNCHANGED << runningExperiments, dbExperiments, dbSamples, dbResults >>
             /\ thrown' = Null
             /\ UNCHANGED used
             /\ SetRun(r, [runs[r] EXCEPT !.aborted = TRUE])

abort(e) ==
    LET r == runningExperiments[e]
    IN  IF r = 0
        THEN /\ thrown' = << [op |-> "abort", id |-> e, error |-> "NotRunning", missing |-> {}] >>
             /\ UNCHANGED << experiment, runningExperiments, runs, aborts,
                             dbExperiments, dbSamples, dbResults, used >>
        ELSE /\ Len(aborts) < MaxAborts
             /\ experiment' = [experiment EXCEPT
                    ![e].status = "cancelled",
                    ![e].completedAt = << Date >>,
                    ![e].actualCost = << SumCost(runs[r].samples) >>]
             /\ aborts' = Append(aborts,
                    [experimentId |-> e,
                     run |-> r,
                     pc |-> "save_experiment",
                     put |-> << experiment'[e] >>,
                     results |-> Null,
                     k |-> ResolvedCalls(runs[r])])
             /\ UNCHANGED << runningExperiments, dbExperiments, dbSamples, dbResults >>
             /\ thrown' = Null
             /\ UNCHANGED used
             /\ SetRun(r, [runs[r] EXCEPT !.aborted = TRUE])
\* abort() emptying the running set instead of deleting its own entry
abortSavedClears(a) ==
    LET call == aborts[a]
    IN  /\ call.pc = "save_experiment"
        /\ dbExperiments' = [dbExperiments EXCEPT ![call.experimentId] = call.put]
        /\ UNCHANGED << experiment, dbSamples, dbResults >>
        /\ thrown' = Null
        /\ UNCHANGED used
        /\ aborts' = [aborts EXCEPT ![a] = Settled(call, "resolved")]
        /\ runningExperiments' = [e \in DOMAIN runningExperiments |-> 0]
        /\ runs' = Sweep(runs, runningExperiments', aborts')

\* saveExperiment resolves in abort()
abortSaved(a) ==
    LET call == aborts[a]
        samples == runs[call.run].samples
    IN  /\ call.pc = "save_experiment"
        /\ dbExperiments' = [dbExperiments EXCEPT ![call.experimentId] = call.put]
        /\ UNCHANGED << experiment, dbSamples, dbResults >>
        /\ thrown' = Null
        /\ UNCHANGED used
        /\ IF Len(samples) > 0
           THEN /\ aborts' = [aborts EXCEPT ![a].pc = "save_results",
                                            ![a].put = Null,
                                            ![a].results = << generateResults(call.experimentId, samples) >>]
                /\ UNCHANGED runningExperiments
           ELSE /\ aborts' = [aborts EXCEPT ![a] = Settled(call, "resolved")]
                /\ runningExperiments' = [runningExperiments EXCEPT ![call.experimentId] = 0]
        /\ runs' = Sweep(runs, runningExperiments', aborts')

\* saveResults resolves in abort(): the entry is deleted and abort() resolves
abortResultsSaved(a) ==
    LET call == aborts[a]
    IN  /\ call.pc = "save_results"
        /\ dbResults' = [dbResults EXCEPT ![call.experimentId] = call.results]
        /\ runningExperiments' = [runningExperiments EXCEPT ![call.experimentId] = 0]
        /\ aborts' = [aborts EXCEPT ![a] = Settled(call, "resolved")]
        /\ UNCHANGED << experiment, dbExperiments, dbSamples >>
        /\ thrown' = Null
        /\ UNCHANGED used
        /\ runs' = Sweep(runs, runningExperiments', aborts')

\* a save rejects in abort(): abort() rejects, the entry stays
abortFailed(a) ==
    /\ aborts[a].pc \in AwaitingInAbort
    /\ MayReject
    /\ aborts' = [aborts EXCEPT ![a] = Settled(aborts[a], "rejected")]
    /\ UNCHANGED << experiment, runningExperiments,
                    dbExperiments, dbSamples, dbResults >>
    /\ thrown' = Null
    /\ used' = Rejected(used)
    /\ runs' = Sweep(runs, runningExperiments', aborts')

\* ------------------------------------------------------------ specification
Next ==
    \/ \E e \in Ids, apiKeys \in KeyMaps : start(e, apiKeys) /\ UNCHANGED << submissions, outsideRunner >>
    \/ \E r \in DOMAIN runs : startSaved(r) /\ UNCHANGED << submissions, outsideRunner >>
    \/ \E r \in DOMAIN runs : startSaveFailed(r) /\ UNCHANGED << submissions, outsideRunner >>
    \/ \E r \in DOMAIN runs, word \in Words : sampleResolved(r, word) /\ UNCHANGED << submissions, outsideRunner >>
    \/ \E r \in DOMAIN runs : sampleRejected(r) /\ UNCHANGED << submissions, outsideRunner >>
    \/ \E r \in DOMAIN runs : sampleSaved(r) /\ UNCHANGED << submissions, outsideRunner >>
    \/ \E r \in DOMAIN runs : sampleSaveFailed(r) /\ UNCHANGED << submissions, outsideRunner >>
    \/ \E r \in DOMAIN runs : pauseElapsed(r) /\ UNCHANGED << submissions, outsideRunner >>
    \/ \E r \in DOMAIN runs : completeExperimentSaved(r) /\ UNCHANGED << submissions, outsideRunner >>
    \/ \E r \in DOMAIN runs : completeResultsSaved(r) /\ UNCHANGED outsideRunner
    \/ \E r \in DOMAIN runs : completeFailed(r) /\ UNCHANGED << submissions, outsideRunner >>
    \/ \E r \in DOMAIN runs : handleErrorSaved(r) /\ UNCHANGED << submissions, outsideRunner >>
    \/ \E r \in DOMAIN runs : handleErrorResultsSaved(r) /\ UNCHANGED << submissions, outsideRunner >>
    \/ \E r \in DOMAIN runs : handleErrorFailed(r) /\ UNCHANGED << submissions, outsideRunner >>
    \/ \E e \in Ids : abort(e) /\ UNCHANGED << submissions, outsideRunner >>
    \/ \E a \in DOMAIN aborts : abortSaved(a) /\ UNCHANGED << submissions, outsideRunner >>
    \/ \E a \in DOMAIN aborts : abortResultsSaved(a) /\ UNCHANGED << submissions, outsideRunner >>
    \/ \E a \in DOMAIN aborts : abortFailed(a) /\ UNCHANGED << submissions, outsideRunner >>
    \/ \E s \in DOMAIN submissions : submitResolved(s) /\ UNCHANGED outsideRunner
    \/ \E s \in DOMAIN submissions : submitFailed(s) /\ UNCHANGED outsideRunner

Spec == Init /\ [][Next]_vars

(***************************************************************************)
(* RateLimiter (providers.ts): one instance, as the registry creates it    *)
(* for a provider.  A request is named by its position in submission       *)
(* order; its fn, resolve and reject are those of that request.            *)
(***************************************************************************)
Callers == {"A", "B"}

RequestRates == {60, 120}

NewRequest(caller) ==
    [caller |-> caller, startedAt |-> Null, finished |-> FALSE, settled |-> Null]

\* item.fn() is invoked: the request starts executing at Date.now().
Invoke(reqs, item) ==
    [reqs EXCEPT ![item].startedAt = << now >>]

PutLoop(k, loop) ==
    IF k \in DOMAIN loops THEN [loops EXCEPT ![k] = loop] ELSE Append(loops, loop)

DropLoop(k) ==
    [j \in 1..(Len(loops) - 1) |-> IF j < k THEN loops[j] ELSE loops[j + 1]]

\* The drain loop of processQueue from its `while` test to its next await, for
\* the invocation k, on the queue q, with lastRequestTime = last.
DrainLoop(k, q, last, reqs, proc) ==
    /\ lastRequestTime' = last
    /\ IF q = << >>
       THEN /\ processing' = FALSE
            /\ queue' = q
            /\ loops' = DropLoop(k)
            /\ requests' = reqs
            /\ startOrder' = startOrder
       ELSE LET item == Head(q)
                timeSinceLastRequest == now - last
            IN  /\ processing' = proc
                /\ queue' = Tail(q)
                /\ IF timeSinceLastRequest < interval
                   THEN /\ loops' = PutLoop(k, [pc |-> "waiting", item |-> item,
                                                wakeAt |-> now + (interval - timeSinceLastRequest)])
                        /\ requests' = reqs
                        /\ startOrder' = startOrder
                   ELSE /\ loops' = PutLoop(k, [pc |-> "executing", item |-> item, wakeAt |-> now])
                        /\ requests' = Invoke(reqs, item)
                        /\ startOrder' = Append(startOrder, item)

processQueueUnguarded(q, reqs) ==
    DrainLoop(Len(loops) + 1, q, lastRequestTime, reqs, TRUE)

processQueue(q, reqs) ==
    IF processing \/ q = << >>
    THEN /\ queue' = q
         /\ requests' = reqs
         /\ UNCHANGED << processing, lastRequestTime, loops, startOrder >>
    ELSE DrainLoop(Len(loops) + 1, q, lastRequestTime, reqs, TRUE)

enqueue(caller) ==
    /\ Len(requests) < MaxRequests
    /\ processQueue(Append(queue, Len(requests) + 1), Append(requests, NewRequest(caller)))
    /\ UNCHANGED << interval, now, replacedLimiters >>

waitElapsedEarly(k) ==
    /\ loops[k].pc = "waiting"
    /\ loops' = [loops EXCEPT ![k].pc = "executing"]
    /\ requests' = Invoke(requests, loops[k].item)
    /\ startOrder' = Append(startOrder, loops[k].item)
    /\ UNCHANGED << queue, processing, interval, lastRequestTime, now, replacedLimiters >>

\* The setTimeout of the interval wait fires, no earlier than its delay.
waitElapsed(k) ==
    /\ loops[k].pc = "waiting"
    /\ now >= loops[k].wakeAt
    /\ loops' = [loops EXCEPT ![k].pc = "executing"]
    /\ requests' = Invoke(requests, loops[k].item)
    /\ startOrder' = Append(startOrder, loops[k].item)
    /\ UNCHANGED << queue, processing, interval, lastRequestTime, now, replacedLimiters >>

Settle(reqs, item, kind) ==
    [reqs EXCEPT ![item].finished = TRUE, ![item].settled = << kind, item >>]

fnResolved(k) ==
    /\ loops[k].pc = "executing"
    /\ DrainLoop(k, queue, now, Settle(requests, loops[k].item, "resolved"), processing)
    /\ UNCHANGED << interval, now, replacedLimiters >>

fnRejectedEscapes(k) ==
    /\ loops[k].pc = "executing"
    /\ loops' = DropLoop(k)
    /\ requests' = [requests EXCEPT ![loops[k].item].finished = TRUE]
    /\ UNCHANGED << queue, processing, interval, lastRequestTime, now, startOrder, replacedLimiters >>

fnRejected(k) ==
    /\ loops[k].pc = "executing"
    /\ DrainLoop(k, queue, now, Settle(requests, loops[k].item, "rejected"), processing)
    /\ UNCHANGED << interval, now, replacedLimiters >>

\* The clock advances; past MaxTime it advances only for a pending interval wait.
Tick ==
    /\ \/ now < MaxTime
       \/ \E k \in DOMAIN loops : loops[k].pc = "waiting" /\ now < loops[k].wakeAt
       \/ \E j \in DOMAIN replacedLimiters : \E k \in DOMAIN replacedLimiters[j].loops :
              replacedLimiters[j].loops[k].pc = "waiting" /\ now < replacedLimiters[j].loops[k].wakeAt
    /\ now' = now + TickMs
    /\ UNCHANGED << queue, processing, interval, lastRequestTime, loops, requests, startOrder, replacedLimiters >>

InitLimiter ==
    /\ experiment = [e \in Ids |-> NewExperiment([selectedModels |-> << "gpt-4o" >>, configs |-> SubSeq(Configs, 1, 1), samplesPerConfig |-> 1])]
    /\ runningExperiments = [e \in Ids |-> 0]
    /\ runs = << >>
    /\ aborts = << >>
    /\ dbExperiments = [e \in Ids |-> << experiment[e] >>]
    /\ dbSamples = << >>
    /\ dbResults = [e \in Ids |-> Null]
    /\ thrown = Null
    /\ used = [calls |-> 0, storageFailures |-> 0]
    /\ submissions = << >>
    /\ \E requestsPerMinute \in RequestRates : RateLimiter(requestsPerMinute)
    /\ NoApplication
    /\ NoSnapshots
    /\ NoCall

NextLimiter ==
    \/ \E caller \in Callers : enqueue(caller) /\ UNCHANGED outsideLimiter
    \/ \E k \in DOMAIN loops : waitElapsed(k) /\ UNCHANGED outsideLimiter
    \/ \E k \in DOMAIN loops : fnResolved(k) /\ UNCHANGED outsideLimiter
    \/ \E k \in DOMAIN loops : fnRejected(k) /\ UNCHANGED outsideLimiter
    \/ Tick /\ UNCHANGED outsideLimiter

SpecLimiter == InitLimiter /\ [][NextLimiter]_vars

(***************************************************************************)
(* ProviderRegistry.setRateLimit (providers.ts): the registry's limiter    *)
(* for the provider is the one in queue, processing, interval,             *)
(* lastRequestTime and loops; a limiter taken out of the registry keeps    *)
(* its own fields and its drain loop goes on.                              *)
(***************************************************************************)
\* this.rateLimiters.set(providerId, new RateLimiter(requestsPerMinute))
setRateLimit(requestsPerMinute) ==
    /\ Len(replacedLimiters) < MaxReplaced
    /\ replacedLimiters' = Append(replacedLimiters, [queue |-> queue, processing |-> processing,
                                     interval |-> interval,
                                     lastRequestTime |-> lastRequestTime,
                                     loops |-> loops])
    /\ queue' = << >>
    /\ processing' = FALSE
    /\ interval' = 60000 \div requestsPerMinute
    /\ lastRequestTime' = 0
    /\ loops' = << >>
    /\ UNCHANGED << now, requests, startOrder >>

\* The drain loop k of the replacedLimiters limiter j from its `while` test to its next
\* await, with lastRequestTime = last.
DrainReplaced(j, k, last, reqs) ==
    LET limiter == replacedLimiters[j]
        without == [i \in 1..(Len(limiter.loops) - 1) |->
                       IF i < k THEN limiter.loops[i] ELSE limiter.loops[i + 1]]
    IN  IF limiter.queue = << >>
        THEN /\ replacedLimiters' = [replacedLimiters EXCEPT ![j] =
                     [limiter EXCEPT !.lastRequestTime = last, !.processing = FALSE,
                                     !.loops = without]]
             /\ requests' = reqs
             /\ startOrder' = startOrder
        ELSE LET item == Head(limiter.queue)
                 timeSinceLastRequest == now - last
             IN  IF timeSinceLastRequest < limiter.interval
                 THEN /\ replacedLimiters' = [replacedLimiters EXCEPT ![j] =
                              [limiter EXCEPT !.lastRequestTime = last,
                                              !.queue = Tail(@),
                                              !.loops[k] = [pc |-> "waiting", item |-> item,
                                                            wakeAt |-> now + (limiter.interval - timeSinceLastRequest)]]]
                      /\ requests' = reqs
                      /\ startOrder' = startOrder
                 ELSE /\ replacedLimiters' = [replacedLimiters EXCEPT ![j] =
                              [limiter EXCEPT !.lastRequestTime = last,
                                              !.queue = Tail(@),
                                              !.loops[k] = [pc |-> "executing", item |-> item,
                                                            wakeAt |-> now]]]
                      /\ requests' = Invoke(reqs, item)
                      /\ startOrder' = Append(startOrder, item)

\* the interval wait of a replacedLimiters limiter ends
replacedWaitElapsed(j, k) ==
    /\ replacedLimiters[j].loops[k].pc = "waiting"
    /\ now >= replacedLimiters[j].loops[k].wakeAt
    /\ replacedLimiters' = [replacedLimiters EXCEPT ![j].loops[k].pc = "executing"]
    /\ requests' = Invoke(requests, replacedLimiters[j].loops[k].item)
    /\ startOrder' = Append(startOrder, replacedLimiters[j].loops[k].item)
    /\ UNCHANGED << queue, processing, interval, lastRequestTime, loops, now >>

\* the request function executed by a replacedLimiters limiter resolves or rejects
replacedFnSettled(j, k, kind) ==
    /\ replacedLimiters[j].loops[k].pc = "executing"
    /\ DrainReplaced(j, k, now, Settle(requests, replacedLimiters[j].loops[k].item, kind))
    /\ UNCHANGED << queue, processing, interval, lastRequestTime, loops, now >>

NextRegistry ==
    \/ \E caller \in Callers : enqueue(caller) /\ UNCHANGED outsideLimiter
    \/ \E k \in DOMAIN loops : waitElapsed(k) /\ UNCHANGED outsideLimiter
    \/ \E k \in DOMAIN loops : fnResolved(k) /\ UNCHANGED outsideLimiter
    \/ \E k \in DOMAIN loops : fnRejected(k) /\ UNCHANGED outsideLimiter
    \/ Tick /\ UNCHANGED outsideLimiter
    \/ \E requestsPerMinute \in RequestRates : setRateLimit(requestsPerMinute) /\ UNCHANGED outsideLimiter
    \/ \E j \in DOMAIN replacedLimiters : \E k \in DOMAIN replacedLimiters[j].loops :
           replacedWaitElapsed(j, k) /\ UNCHANGED outsideLimiter
    \/ \E j \in DOMAIN replacedLimiters : \E k \in DOMAIN replacedLimiters[j].loops, kind \in {"resolved", "rejected"} :
           replacedFnSettled(j, k, kind) /\ UNCHANGED outsideLimiter

SpecRegistry == InitLimiter /\ [][NextRegistry]_vars

(***************************************************************************)
(* Two experiments handed to the same runner.                              *)
(***************************************************************************)
TwoIds == {"e1", "e2"}

\* the credential maps with a key for every provider
AllKeys == {apiKeys \in KeyMaps : \A p \in ProviderIds : apiKeys[p] # ""}

InitTwo ==
    /\ experiment = [e \in TwoIds |->
           NewExperiment([selectedModels |-> IF e = "e1" THEN << "gpt-4o" >> ELSE << "moonshot-v1-8k" >>,
                          configs |-> SubSeq(Configs, 1, 1),
                          samplesPerConfig |-> 1])]
    /\ runningExperiments = [e \in TwoIds |-> 0]
    /\ runs = << >>
    /\ aborts = << >>
    /\ dbExperiments = [e \in TwoIds |-> << experiment[e] >>]
    /\ dbSamples = << >>
    /\ dbResults = [e \in TwoIds |-> Null]
    /\ thrown = Null
    /\ used = [calls |-> 0, storageFailures |-> 0]
    /\ submissions = << >>
    /\ RateLimiter(DefaultRequestsPerMinute)
    /\ NoApplication
    /\ NoSnapshots
    /\ NoCall

NextTwo ==
    \/ \E e \in TwoIds, apiKeys \in AllKeys : start(e, apiKeys) /\ UNCHANGED << submissions, outsideRunner >>
    \/ \E r \in DOMAIN runs : startSaved(r) /\ UNCHANGED << submissions, outsideRunner >>
    \/ \E r \in DOMAIN runs : startSaveFailed(r) /\ UNCHANGED << submissions, outsideRunner >>
    \/ \E r \in DOMAIN runs, word \in Words : sampleResolved(r, word) /\ UNCHANGED << submissions, outsideRunner >>
    \/ \E r \in DOMAIN runs : sampleRejected(r) /\ UNCHANGED << submissions, outsideRunner >>
    \/ \E r \in DOMAIN runs : sampleSaved(r) /\ UNCHANGED << submissions, outsideRunner >>
    \/ \E r \in DOMAIN runs : sampleSaveFailed(r) /\ UNCHANGED << submissions, outsideRunner >>
    \/ \E r \in DOMAIN runs : pauseElapsed(r) /\ UNCHANGED << submissions, outsideRunner >>
    \/ \E r \in DOMAIN runs : completeExperimentSaved(r) /\ UNCHANGED << submissions, outsideRunner >>
    \/ \E r \in DOMAIN runs : completeResultsSaved(r) /\ UNCHANGED outsideRunner
    \/ \E r \in DOMAIN runs : completeFailed(r) /\ UNCHANGED << submissions, outsideRunner >>
    \/ \E r \in DOMAIN runs : handleErrorSaved(r) /\ UNCHANGED << submissions, outsideRunner >>
    \/ \E r \in DOMAIN runs : handleErrorResultsSaved(r) /\ UNCHANGED << submissions, outsideRunner >>
    \/ \E r \in DOMAIN runs : handleErrorFailed(r) /\ UNCHANGED << submissions, outsideRunner >>
    \/ \E e \in TwoIds : abort(e) /\ UNCHANGED << submissions, outsideRunner >>
    \/ \E a \in DOMAIN aborts : abortSaved(a) /\ UNCHANGED << submissions, outsideRunner >>
    \/ \E a \in DOMAIN aborts : abortResultsSaved(a) /\ UNCHANGED << submissions, outsideRunner >>
    \/ \E a \in DOMAIN aborts : abortFailed(a) /\ UNCHANGED << submissions, outsideRunner >>

SpecTwo == InitTwo /\ [][NextTwo]_vars

(***************************************************************************)
(* getProgress and the progress object it copies.  Arrays and config       *)
(* objects are referred to by address, so that the shallow copy of         *)
(* `{ ...progress }` shares them with the runner's own object.             *)
(***************************************************************************)
\* a runner with one pending experiment and nothing started
IdleRunner ==
    /\ experiment = [e \in Ids |-> NewExperiment([selectedModels |-> << "gpt-4o" >>, configs |-> SubSeq(Configs, 1, 2), samplesPerConfig |-> 1])]
    /\ runningExperiments = [e \in Ids |-> 0]
    /\ runs = << >>
    /\ aborts = << >>
    /\ dbExperiments = [e \in Ids |-> << experiment[e] >>]
    /\ dbSamples = << >>
    /\ dbResults = [e \in Ids |-> Null]
    /\ thrown = Null
    /\ used = [calls |-> 0, storageFailures |-> 0]
    /\ submissions = << >>

\* start(): the progress object with a fresh config object and a fresh array;
\* the objects of experiment.configs follow at addresses 2, 3
InitSnapshot ==
    /\ IdleRunner
    /\ RateLimiter(DefaultRequestsPerMinute)
    /\ NoApplication
    /\ NoCall
    /\ arrays = << << >> >>
    /\ objects = << [temperature |-> 0, topK |-> 0] >> \o SubSeq(Configs, 1, 2)
    /\ progressObj = << [totalCalls |-> MaxSamples,
                         completedCalls |-> 0,
                         currentModel |-> "",
                         currentConfig |-> 1,
                         runningCost |-> 0,
                         recentWords |-> 1] >>
    /\ snapshots = << >>

\* what a reader of the progress object p sees
View(p, arrs, objs) ==
    [totalCalls |-> p.totalCalls,
     completedCalls |-> p.completedCalls,
     currentModel |-> p.currentModel,
     currentConfig |-> objs[p.currentConfig],
     runningCost |-> p.runningCost,
     recentWords |-> arrs[p.recentWords]]

\* progress.currentModel = model.name; progress.currentConfig = config
enterConfig(c) ==
    /\ progressObj[1].currentConfig # 1 + c
    /\ progressObj' = << [progressObj[1] EXCEPT !.currentModel = "GPT-4o", !.currentConfig = 1 + c] >>
    /\ UNCHANGED << arrays, objects, snapshots >>

\* a sample was saved: counters updated, recentWords replacedLimiters by a new array
sampleCounted(word) ==
    /\ progressObj[1].completedCalls < MaxSamples
    /\ arrays' = Append(arrays, pushRecentWord(arrays[progressObj[1].recentWords], word))
    /\ progressObj' = << [progressObj[1] EXCEPT !.completedCalls = @ + 1,
                                                !.runningCost = @ + 1,
                                                !.recentWords = Len(arrays) + 1] >>
    /\ UNCHANGED << objects, snapshots >>

\* getProgress(): { ...runningExperiment.progress }
getProgressCalled ==
    /\ Len(snapshots) < MaxSnapshots
    /\ snapshots' = Append(snapshots, progressObj[1])
    /\ UNCHANGED << arrays, objects, progressObj >>

\* the caller assigns a field of the object it was given
callerAssigns(s) ==
    /\ snapshots[s].completedCalls # MaxSamples + 1
    /\ snapshots' = [snapshots EXCEPT ![s].completedCalls = MaxSamples + 1]
    /\ UNCHANGED << arrays, objects, progressObj >>

\* the caller pushes onto the recentWords of the object it was given
callerPushes(s, word) ==
    /\ Len(arrays[snapshots[s].recentWords]) < MaxSamples
    /\ arrays' = [arrays EXCEPT ![snapshots[s].recentWords] = Append(@, word)]
    /\ UNCHANGED << objects, progressObj, snapshots >>

\* the caller edits the currentConfig of the object it was given
callerEditsConfig(s) ==
    /\ objects[snapshots[s].currentConfig].topK # 0
    /\ objects' = [objects EXCEPT ![snapshots[s].currentConfig].topK = 0]
    /\ UNCHANGED << arrays, progressObj, snapshots >>

NextSnapshot ==
    \/ \E c \in 1..2 : enterConfig(c) /\ UNCHANGED outsideSnapshot
    \/ \E word \in Words : sampleCounted(word) /\ UNCHANGED outsideSnapshot
    \/ getProgressCalled /\ UNCHANGED outsideSnapshot
    \/ \E s \in DOMAIN snapshots : callerAssigns(s) /\ UNCHANGED outsideSnapshot
    \/ \E s \in DOMAIN snapshots, word \in Words : callerPushes(s, word) /\ UNCHANGED outsideSnapshot
    \/ \E s \in DOMAIN snapshots : callerEditsConfig(s) /\ UNCHANGED outsideSnapshot

SpecSnapshot == InitSnapshot /\ [][NextSnapshot]_vars

\* ------------------------------------------ generateResults on its own
\* the words, models and temperatures of the samples handed to generateResults
AggregatedWords == {"yes", "no", "maybe"}

SampleKinds ==
    {[word |-> w, modelId |-> c[1], temperature |-> c[2], topK |-> 40] :
        w \in AggregatedWords,
        c \in {<< "gpt-4o", 70 >>, << "gpt-4o", 100 >>, << "moonshot-v1-8k", 100 >>}}

SampleLists == UNION {[1..n -> SampleKinds] : n \in 0..MaxAggregated}

InitAggregate ==
    /\ IdleRunner
    /\ RateLimiter(DefaultRequestsPerMinute)
    /\ NoApplication
    /\ NoSnapshots
    /\ input \in SampleLists
    /\ output = << >>

\* one call of generateResults on the list; output collects the returned values
aggregate ==
    /\ Len(output) < MaxAggregations
    /\ output' = Append(output, generateResults("e1", input))
    /\ UNCHANGED input

NextAggregate == aggregate /\ UNCHANGED outsidePure

SpecAggregate == InitAggregate /\ [][NextAggregate]_vars

\* ------------------------------------------------- JavaScript numbers
\* A finite non-negative Number (IEEE 754 binary64) is [m, e]: the value is
\* m * 2^e, m a natural number of exactly Precision bits. Natural numbers are
\* sequences of limbs in base Base, least significant first, no zero at the top.
Precision == 53

LimbBits == 12

Base == 2 ^ LimbBits

Zero == [m |-> << >>, e |-> 0]

RECURSIVE Trim(_)
Trim(a) == IF a = << >> \/ a[Len(a)] # 0 THEN a ELSE Trim(SubSeq(a, 1, Len(a) - 1))

\* the natural number k, 0 <= k < 2^31
Big(k) == Trim(<< k % Base, (k \div Base) % Base, k \div (Base * Base) >>)

RECURSIVE AddC(_, _, _)
\* a + b + c
AddC(a, b, c) ==
    IF a = << >> /\ b = << >> THEN Big(c)
    ELSE LET x == IF a = << >> THEN 0 ELSE a[1]
             y == IF b = << >> THEN 0 ELSE b[1]
         IN  << (x + y + c) % Base >>
             \o AddC(IF a = << >> THEN a ELSE Tail(a), IF b = << >> THEN b ELSE Tail(b),
                     (x + y + c) \div Base)

RECURSIVE MulC(_, _, _)
\* a * i + c for 0 < i < Base
MulC(a, i, c) ==
    IF a = << >> THEN Big(c)
    ELSE << (a[1] * i + c) % Base >> \o MulC(Tail(a), i, (a[1] * i + c) \div Base)

RECURSIVE DivC(_, _, _)
\* quotient and remainder of (r * Base^Len(a) + a) by y, for r < y < 2^18
DivC(a, y, r) ==
    IF a = << >> THEN [q |-> << >>, r |-> r]
    ELSE LET t == r * Base + a[Len(a)]
             low == DivC(SubSeq(a, 1, Len(a) - 1), y, t % y)
         IN  [q |-> Append(low.q, t \div y), r |-> low.r]

\* a * 2^s
ShiftLeft(a, s) ==
    IF a = << >> THEN a
    ELSE [i \in 1..(s \div LimbBits) |-> 0] \o MulC(a, 2 ^ (s % LimbBits), 0)

\* a \div 2^s, and whether nothing was shifted out
ShiftRight(a, s) ==
    LET n == s \div LimbBits
        d == DivC(SubSeq(a, n + 1, Len(a)), 2 ^ (s % LimbBits), 0)
    IN  [q |-> Trim(d.q), exact |-> d.r = 0 /\ \A i \in 1..n : a[i] = 0]

BitLength(a) ==
    IF a = << >> THEN 0
    ELSE LimbBits * (Len(a) - 1)
         + (CHOOSE n \in 1..LimbBits : 2 ^ (n - 1) <= a[Len(a)] /\ a[Len(a)] < 2 ^ n)

\* round-to-nearest, ties-to-even, of a * 2^e, or of a value strictly between
\* a * 2^e and (a + 1) * 2^e when exact is false (a then has more than
\* Precision bits)
Round(a, e, exact) ==
    IF a = << >> THEN Zero
    ELSE IF BitLength(a) <= Precision
    THEN [m |-> ShiftLeft(a, Precision - BitLength(a)), e |-> e - (Precision - BitLength(a))]
    ELSE LET s == BitLength(a) - Precision
             keep == ShiftRight(a, s)
             half == ShiftRight(a, s - 1).q[1] % 2 = 1
             below == ~ exact \/ ~ ShiftRight(a, s - 1).exact
             up == half /\ (below \/ keep.q[1] % 2 = 1)
             m == IF up THEN AddC(keep.q, << >>, 1) ELSE keep.q
         IN  IF BitLength(m) > Precision THEN [m |-> ShiftRight(m, 1).q, e |-> e + s + 1]
             ELSE [m |-> m, e |-> e + s]

\* the Number of an integer literal or integer-valued input
ToNumber(k) == Round(Big(k), 0, TRUE)

\* x / y for integers 0 <= x < 2^31 and 0 < y < 2^17, both exactly
\* representable: the quotient is taken to more than Precision + 1 bits
Divide(x, y) ==
    LET d == DivC(ShiftLeft(Big(x), 6 * LimbBits), y, 0)
    IN  Round(Trim(d.q), 0 - 6 * LimbBits, d.r = 0)

\* i * x for an integer 0 <= i < Base and a Number x
Times(i, x) == IF i = 0 \/ x = Zero THEN Zero ELSE Round(MulC(x.m, i, 0), x.e, TRUE)

\* k + x for an integer k >= 0 and a Number x
Plus(k, x) ==
    IF x = Zero THEN ToNumber(k)
    ELSE IF k = 0 THEN x
    ELSE IF x.e <= 0 THEN Round(AddC(ShiftLeft(Big(k), 0 - x.e), x.m, 0), x.e, TRUE)
    ELSE Round(AddC(Big(k), ShiftLeft(x.m, x.e), 0), 0, TRUE)

\* x < y for Numbers
Less(x, y) ==
    IF y = Zero THEN FALSE
    ELSE IF x = Zero THEN TRUE
    ELSE \/ x.e < y.e
         \/ /\ x.e = y.e
            /\ \E i \in DOMAIN x.m : /\ x.m[i] < y.m[i]
                                     /\ \A j \in (i + 1)..Len(x.m) : x.m[j] = y.m[j]

\* ------------------------------------------------------ config expansion
generateRange(min, max, steps) ==
    IF steps = 1 THEN << ToNumber(min) >>
    ELSE LET stepSize == Divide(max - min, steps - 1)
         IN  [i \in 1..steps |-> Plus(min, Times(i - 1, stepSize))]

\* the integer-valued ranges handed to generateRange, max above min
RangeInputs ==
    {r \in [min : 0..1, max : 1..MaxRangeMax, steps : 1..MaxSteps] : r.min < r.max}

InitRange ==
    /\ IdleRunner
    /\ RateLimiter(DefaultRequestsPerMinute)
    /\ NoApplication
    /\ NoSnapshots
    /\ input \in RangeInputs
    /\ output = << >>

\* one call of generateRange
range ==
    /\ output = << >>
    /\ output' = << generateRange(input.min, input.max, input.steps) >>
    /\ UNCHANGED input

NextRange == range /\ UNCHANGED outsidePure

SpecRange == InitRange /\ [][NextRange]_vars

\* the builder states handed to handleCreateExperiment: each axis single or a
\* range, all values integers
BuilderStates ==
    [temperatureMode : {"single", "range"}, temperatureSingle : {1},
     temperatureMin : {0}, temperatureMax : {1, 2}, temperatureSteps : {2, 3},
     topKMode : {"single", "range"}, topKSingle : {40},
     topKMin : {1}, topKMax : {40, 100}, topKSteps : {2, 3},
     selectedModels : {<< "gpt-4o" >>, << "gpt-4o", "moonshot-v1-8k" >>},
     samplesPerConfig : {1, 100}]

RECURSIVE ConfigGrid(_, _), ConfigGridTopKOuter(_, _)
\* the loops nested the other way round: top-K outside, temperature inside
ConfigGridTopKOuter(temps, topKs) ==
    IF topKs = << >> THEN << >>
    ELSE [i \in 1..Len(temps) |-> [temperature |-> temps[i], topK |-> topKs[1]]]
         \o ConfigGridTopKOuter(temps, Tail(topKs))

\* for (const temp of temps) for (const topK of topKs) configs.push(...)
ConfigGrid(temps, topKs) ==
    IF temps = << >> THEN << >>
    ELSE [j \in 1..Len(topKs) |-> [temperature |-> temps[1], topK |-> topKs[j]]]
         \o ConfigGrid(Tail(temps), topKs)

\* the Experiment object built by handleCreateExperiment, id from createExperimentId()
handleCreateExperiment(builderState, id) ==
    LET temps == IF builderState.temperatureMode = "range"
                 THEN generateRange(builderState.temperatureMin, builderState.temperatureMax,
                                    builderState.temperatureSteps)
                 ELSE << ToNumber(builderState.temperatureSingle) >>
        topKs == IF builderState.topKMode = "range"
                 THEN generateRange(builderState.topKMin, builderState.topKMax, builderState.topKSteps)
                 ELSE << ToNumber(builderState.topKSingle) >>
        configs == IF builderState.temperatureMode = "single" /\ builderState.topKMode = "single"
                   THEN << [temperature |-> ToNumber(builderState.temperatureSingle),
                            topK |-> ToNumber(builderState.topKSingle)] >>
                   ELSE ConfigGrid(temps, topKs)
        callsPerModel == Len(configs) * builderState.samplesPerConfig
        RECURSIVE Cost(_)
        Cost(models) ==
            IF models = << >> THEN 0
            ELSE (IF findModelById(models[1]) = Null THEN 0
                  ELSE estimateCost(findModelById(models[1])[1].providerId, models[1],
                                    CeilDiv4(StimulusLength), 1) * callsPerModel)
                 + Cost(Tail(models))
    IN  [id |-> id,
         selectedModels |-> builderState.selectedModels,
         configs |-> configs,
         samplesPerConfig |-> builderState.samplesPerConfig,
         estimatedCost |-> Cost(builderState.selectedModels),
         totalCalls |-> Len(builderState.selectedModels) * Len(configs) * builderState.samplesPerConfig,
         status |-> "pending",
         createdAt |-> Date]

InitCreate ==
    /\ IdleRunner
    /\ RateLimiter(DefaultRequestsPerMinute)
    /\ NoApplication
    /\ NoSnapshots
    /\ input \in BuilderStates
    /\ output = << >>

\* handleCreateExperiment up to its await of storage.saveExperiment
createCalled(id) ==
    /\ Len(output) < MaxCreations
    /\ output' = Append(output, [experiment |-> handleCreateExperiment(input, id), pc |-> "save"])
    /\ UNCHANGED input

\* the save resolves: setCurrentExperiment(experiment) and the experiment is returned
createSaved(k) ==
    /\ output[k].pc = "save"
    /\ output' = [output EXCEPT ![k].pc = "returned"]
    /\ UNCHANGED input

\* the save rejects: the handler rejects with the storage error
createSaveFailed(k) ==
    /\ output[k].pc = "save"
    /\ output' = [output EXCEPT ![k].pc = "thrown"]
    /\ UNCHANGED input

NextCreate ==
    \/ \E id \in {"exp-1", "exp-2"} : createCalled(id) /\ UNCHANGED outsidePure
    \/ \E k \in DOMAIN output : createSaved(k) /\ UNCHANGED outsidePure
    \/ \E k \in DOMAIN output : createSaveFailed(k) /\ UNCHANGED outsidePure

SpecCreate == InitCreate /\ [][NextCreate]_vars

\* ------------------------------------------------ estimateCost on its own
\* the calls of ProviderRegistry.estimateCost: catalogued and uncatalogued
\* models through registered and unregistered providers
CostCalls ==
    [providerId : ProviderIds \cup {"unknown"},
     model : DOMAIN PROVIDER_DATA \cup {"unlisted-model"},
     inputTokens : {0, 3, 250, 1000},
     outputTokens : {0, 1, 1000}]

InitCost ==
    /\ IdleRunner
    /\ RateLimiter(DefaultRequestsPerMinute)
    /\ NoApplication
    /\ NoSnapshots
    /\ input \in CostCalls
    /\ output = << >>

estimateCostCalled ==
    /\ output = << >>
    /\ output' = << estimateCost(input.providerId, input.model, input.inputTokens, input.outputTokens) >>
    /\ UNCHANGED input

NextCost == estimateCostCalled /\ UNCHANGED outsidePure

SpecCost == InitCost /\ [][NextCost]_vars

\* ------------------------------------------------- extractWord on its own
\* response texts: sequences of characters, one of each kind the regular
\* expressions tell apart (lower-case letter, upper-case letter, punctuation,
\* whitespace, hyphen)
Texts == UNION {[1..n -> {"a", "B", "!", " ", "-"}] : n \in 0..MaxTextLen}

\* BaseProvider.extractWord: the word returned, or the error thrown
extractWord(text) ==
    LET IsSpace(c) == c = " "
        Kept(c) == c # "!"
        inner == {i \in DOMAIN text : ~ IsSpace(text[i])}
        first == CHOOSE i \in inner : \A j \in inner : i <= j
        last == CHOOSE i \in inner : \A j \in inner : j <= i
        trimmed == IF inner = {} THEN << >> ELSE SubSeq(text, first, last)
        replaced == SelectSeq(trimmed, Kept)
        spaces == {i \in DOMAIN replaced : IsSpace(replaced[i])}
        end == IF spaces = {} THEN Len(replaced) + 1
               ELSE CHOOSE i \in spaces : \A j \in spaces : i <= j
        token == SubSeq(replaced, 1, end - 1)
        cleaned == [i \in DOMAIN token |-> IF token[i] = "B" THEN "b" ELSE token[i]]
    IN  IF cleaned = << >> THEN [thrown |-> "No valid word in response"]
        ELSE [word |-> cleaned]

InitExtract ==
    /\ IdleRunner
    /\ RateLimiter(DefaultRequestsPerMinute)
    /\ NoApplication
    /\ NoSnapshots
    /\ input \in Texts
    /\ output = << >>

extractWordCalled ==
    /\ output = << >>
    /\ output' = << extractWord(input) >>
    /\ UNCHANGED input

NextExtract == extractWordCalled /\ UNCHANGED outsidePure

SpecExtract == InitExtract /\ [][NextExtract]_vars

\* ------------------------------------- the recentWords buffer on its own
\* input is the list of the words sampled so far, output the recentWords of
\* the progress object, empty at start() (runner.ts:70)
InitRecent ==
    /\ IdleRunner
    /\ RateLimiter(DefaultRequestsPerMinute)
    /\ NoApplication
    /\ NoSnapshots
    /\ input = << >>
    /\ output = << >>

\* one more successful sample: the progress update of executeSamplesForConfig
wordSampled(word) ==
    /\ Len(input) < MaxPushed
    /\ input' = Append(input, word)
    /\ output' = pushRecentWord(output, word)

NextRecent == \E word \in Words : wordSampled(word) /\ UNCHANGED outsidePure

SpecRecent == InitRecent /\ [][NextRecent]_vars

\* ------------------------------------------------------------- observers
getProgress(e) ==
    IF runningExperiments[e] = 0 THEN Null ELSE << runs[runningExperiments[e]].progress >>

isRunning(e) == runningExperiments[e] # 0

\* the RunningExperiment objects created for experiment e so far
RunsOf(rs, e) == {r \in DOMAIN rs : rs[r].experimentId = e}

IsPrefix(s, t) == Len(s) <= Len(t) /\ SubSeq(t, 1, Len(s)) = s

\* ------------------------------------------------------------------ claims

\* C1: for one started experiment the status goes pending -> running -> one
\* terminal status, and a terminal status, once set, never changes again.
C1_StatusIsMonotone ==
    [][\A e \in Ids :
        Cardinality(RunsOf(runs', e)) <= 1 =>
            \/ experiment'[e].status = experiment[e].status
            \/ experiment[e].status = "pending" /\ experiment'[e].status = "running"
            \/ experiment[e].status = "running" /\ experiment'[e].status \in Terminal]_vars

\* C2: at the moment the promise of abort(id) resolves, the experiment is
\* cancelled, completedAt and actualCost are set, the experiment is persisted
\* and the id is no longer in the running set.
C2_AbortResolvesCancelled ==
    [][\A a \in DOMAIN aborts :
        (aborts[a].pc \in AwaitingInAbort /\ aborts'[a].pc = "resolved") =>
            LET e == aborts[a].experimentId
            IN  /\ experiment'[e].status = "cancelled"
                /\ experiment'[e].completedAt # Null
                /\ experiment'[e].actualCost # Null
                /\ dbExperiments'[e] # Null
                /\ dbExperiments'[e][1].status = "cancelled"
                /\ runningExperiments'[e] = 0]_vars

\* C3: once the cancellation flag of a RunningExperiment is raised, its loop
\* issues no further provider call, and the samples it holds stay in its list.
C3_NoCallAfterAbort ==
    [][\A r \in DOMAIN runs :
        runs[r].aborted =>
            \/ runs'[r].pc = "collected"
            \/ /\ runs'[r].calls = runs[r].calls
               /\ IsPrefix(runs[r].samples, runs'[r].samples)]_vars

\* C3 witness: a cancelled loop has stopped before its planned calls were all
\* issued, and still holds the sample it collected.
C3_Witness ==
    \E r \in DOMAIN runs :
        /\ runs[r].aborted
        /\ runs[r].pc = "stopped"
        /\ Len(runs[r].samples) >= 1
        /\ runs[r].calls < experiment[runs[r].experimentId].totalCalls

InLoop == {"start_save", "sampling", "save_sample", "pause"}

AllCatalogued(exp) ==
    \A j \in 1..Len(exp.selectedModels) : exp.selectedModels[j] \in DOMAIN PROVIDER_DATA

RECURSIVE SumCounts(_)
SumCounts(fs) == IF fs = << >> THEN 0 ELSE fs[1].count + SumCounts(Tail(fs))

\* a rejected provider call leaves status, samples and counters alone, and the
\* loop goes on with the next repetition of the same model and config
FailedCallIsSkipped(r) ==
    LET e == runs[r].experimentId
    IN  /\ experiment'[e].status \in {experiment[e].status, "completed"}
        /\ dbSamples' = dbSamples
        /\ \/ runs'[r].pc = "collected"
           \/ /\ runs'[r].samples = runs[r].samples
              /\ runs'[r].progress.completedCalls = runs[r].progress.completedCalls
        /\ (~runs[r].aborted /\ runs[r].i < experiment[e].samplesPerConfig) =>
               /\ runs'[r].pc = "sampling"
               /\ << runs'[r].m, runs'[r].c, runs'[r].i >> = << runs[r].m, runs[r].c, runs[r].i + 1 >>

C5_AlreadyRunningRejected ==
    [][\A e \in Ids, apiKeys \in KeyMaps :
        (runningExperiments[e] # 0 /\ start(e, apiKeys)) =>
            /\ thrown' = << [op |-> "start", id |-> e, error |-> "AlreadyRunning", missing |-> {}] >>
            /\ UNCHANGED << experiment, runningExperiments, runs, aborts,
                            dbExperiments, dbSamples, dbResults >>]_vars

\* C5 witness: a second start() was rejected while the first one had not yet
\* come back from saveExperiment.
C5_Witness ==
    /\ thrown # Null
    /\ thrown[1].error = "AlreadyRunning"
    /\ \E r \in DOMAIN runs : runs[r].pc = "start_save" /\ runningExperiments[thrown[1].id] = r

\* the providers of the catalogued selected models for which apiKeys has nothing
Lacking(exp, apiKeys) ==
    {p \in ProviderIds :
        /\ apiKeys[p] = ""
        /\ \E j \in 1..Len(exp.selectedModels) :
               /\ exp.selectedModels[j] \in DOMAIN PROVIDER_DATA
               /\ PROVIDER_DATA[exp.selectedModels[j]].providerId = p}

\* C6: start() of a pending experiment with a credential missing throws
\* MissingCredentials naming exactly the providers that lack one; the status
\* stays pending, no run is created, nothing is stored, no call is issued.
C6_MissingCredentialsRejected ==
    [][\A e \in Ids, apiKeys \in KeyMaps :
        (/\ experiment[e].status = "pending"
         /\ Lacking(experiment[e], apiKeys) # {}
         /\ start(e, apiKeys)) =>
            /\ thrown' = << [op |-> "start", id |-> e, error |-> "MissingCredentials",
                             missing |-> Lacking(experiment[e], apiKeys)] >>
            /\ experiment'[e].status = "pending"
            /\ UNCHANGED << experiment, runningExperiments, runs, aborts,
                            dbExperiments, dbSamples, dbResults, used >>]_vars

\* C6 witness: start() was rejected for an experiment that needs two providers
\* of which only one lacks a key; the experiment is still pending, with no run.
C6_Witness ==
    /\ thrown # Null
    /\ thrown[1].error = "MissingCredentials"
    /\ thrown[1].missing = {"openai"}
    /\ Cardinality(requiredProviders(experiment[thrown[1].id])) = 2
    /\ experiment[thrown[1].id].status = "pending"
    /\ runs = << >>

\* C7: abort() for an id that is not in the running set throws NotRunning and
\* changes no status, no results and no entry of the running set.
C7_NotRunningRejected ==
    [][\A e \in Ids :
        (runningExperiments[e] = 0 /\ abort(e)) =>
            /\ thrown' = << [op |-> "abort", id |-> e, error |-> "NotRunning", missing |-> {}] >>
            /\ UNCHANGED << experiment, runningExperiments, runs, aborts,
                            dbExperiments, dbSamples, dbResults >>]_vars

\* C7 witness: abort() was rejected for an experiment that had completed and
\* been removed from the running set.
C7_Witness ==
    /\ thrown # Null
    /\ thrown[1].error = "NotRunning"
    /\ experiment[thrown[1].id].status = "completed"
    /\ dbResults[thrown[1].id] # Null
    /\ ~isRunning(thrown[1].id)

\* C8: completedCalls read through getProgress never exceeds totalCalls and never
\* decreases between two readings of the same running experiment.
C8_CompletedCallsBounded ==
    [][\A e \in Ids :
        experiment[e].totalCalls = Len(experiment[e].selectedModels)
                                       * Len(experiment[e].configs)
                                       * experiment[e].samplesPerConfig =>
            /\ getProgress(e)' # Null =>
                   getProgress(e)'[1].completedCalls <= getProgress(e)'[1].totalCalls
            /\ (isRunning(e) /\ runningExperiments'[e] = runningExperiments[e]) =>
                   getProgress(e)'[1].completedCalls >= getProgress(e)[1].completedCalls]_vars

\* C8 witness: a running experiment of more than one call has all its calls
\* completed.
C8_Witness ==
    \E e \in Ids :
        /\ getProgress(e) # Null
        /\ getProgress(e)[1].totalCalls >= 2
        /\ getProgress(e)[1].completedCalls = getProgress(e)[1].totalCalls

\* C9: for one id there are never two execution loops that both still have a
\* provider call outstanding or a sample to persist.
C9_OneLiveLoopPerId ==
    \A e \in Ids :
        Cardinality({r \in RunsOf(runs, e) : runs[r].pc \in {"sampling", "save_sample"}}) <= 1

\* C10: when abort() resolves after k provider calls had completed at the time
\* of the call, and none completed afterwards, the status is cancelled,
\* completedCalls is k, and the stored results count exactly k samples.
C10_AbortFreezesAtK ==
    [][\A a \in DOMAIN aborts :
        (/\ aborts[a].pc \in AwaitingInAbort
         /\ aborts'[a].pc = "resolved"
         /\ ResolvedCalls(runs[aborts[a].run]) = aborts[a].k) =>
            LET e == aborts[a].experimentId
                k == aborts[a].k
            IN  /\ experiment'[e].status = "cancelled"
                /\ runs[aborts[a].run].progress.completedCalls = k
                /\ k > 0 => /\ dbResults'[e] # Null
                            /\ dbResults'[e][1].totalSamples = k]_vars

\* C11: for an experiment started once, when the loop has ended without
\* cancellation and no save of completeExperiment has rejected, the step in
\* which completeExperiment's saveExperiment resolves stores the experiment as
\* completed with completedAt set and actualCost the sum of the costs of the
\* collected samples, and the step in which its saveResults resolves leaves the
\* status completed, the stored report the one over exactly the collected
\* samples, and the id out of the running set.
C11_NormalCompletion ==
    [][\A r \in DOMAIN runs :
        LET e == runs[r].experimentId
            samples == runs[r].samples
            once == Cardinality(RunsOf(runs, e)) = 1
        IN  /\ (completeExperimentSaved(r) /\ ~runs[r].aborted /\ once) =>
                   /\ experiment'[e].status = "completed"
                   /\ dbExperiments'[e] # Null
                   /\ dbExperiments'[e][1].status = "completed"
                   /\ dbExperiments'[e][1].completedAt # Null
                   /\ dbExperiments'[e][1].actualCost = << SumCost(samples) >>
            /\ (completeResultsSaved(r) /\ ~runs[r].aborted /\ once) =>
                   /\ experiment'[e].status = "completed"
                   /\ experiment'[e].completedAt # Null
                   /\ experiment'[e].actualCost = << SumCost(samples) >>
                   /\ dbResults'[e] # Null
                   /\ dbResults'[e][1].totalSamples = Len(samples)
                   /\ SumCounts(dbResults'[e][1].topWords) = Len(samples)
                   /\ \A w \in Words : CountWord(samples, w) > 0 =>
                          \E k \in 1..Len(dbResults'[e][1].topWords) :
                              /\ dbResults'[e][1].topWords[k].word = w
                              /\ dbResults'[e][1].topWords[k].count = CountWord(samples, w)
                   /\ ~isRunning(e)']_vars

\* C11 witness: an experiment of two calls has completed with both samples in
\* the stored report and has left the running set.
C11_Witness ==
    \E e \in Ids :
        /\ experiment[e].status = "completed"
        /\ ~isRunning(e)
        /\ dbExperiments[e][1].status = "completed"
        /\ dbResults[e] # Null
        /\ dbResults[e][1].totalSamples = 2
        /\ experiment[e].actualCost = << SumCost(dbSamples) >>
        /\ Cardinality(RunsOf(runs, e)) = 1
        /\ aborts = << >>

\* C12: for an experiment started once and not cancelled, when the handling of
\* an exception raised in the loop or during completion ends, the status is
\* failed, completedAt is set, actualCost is the sum of the costs of the samples
\* that exist, a report over those samples is stored when there is at least
\* one, the id has left the running set, and nothing was thrown to a caller.
C12_FailureIsFinalised ==
    [][\A r \in DOMAIN runs :
        LET e == runs[r].experimentId
            samples == runs[r].samples
        IN  (/\ runs[r].pc \in AwaitingInHandleError
             /\ runs'[r].pc \notin AwaitingInHandleError
             /\ ~runs[r].aborted
             /\ Cardinality(RunsOf(runs, e)) = 1) =>
                /\ experiment'[e].status = "failed"
                /\ experiment'[e].completedAt # Null
                /\ experiment'[e].actualCost = << SumCost(samples) >>
                /\ Len(samples) > 0 => /\ dbResults'[e] # Null
                                       /\ dbResults'[e][1].totalSamples = Len(samples)
                /\ ~isRunning(e)'
                /\ thrown' = Null]_vars

\* C13: every experiment that has a terminal status and has left the running
\* set has a results report persisted for its id; with zero samples collected
\* the report is the empty one (totalSamples = 0, no top words, entropy 0).
C13_TerminalHasReport ==
    \A e \in Ids :
        (experiment[e].status \in Terminal /\ ~isRunning(e)) =>
            /\ dbResults[e] # Null
            /\ dbSamples = << >> => /\ dbResults[e][1].totalSamples = 0
                                    /\ dbResults[e][1].topWords = << >>
                                    /\ dbResults[e][1].entropy = 0

\* C14: the only transition into status running is from pending: no step
\* moves an experiment whose status is completed, failed or cancelled back
\* to running.
C14_NoRestartAfterTerminal ==
    [][\A e \in Ids :
        (experiment[e].status \in Terminal) => experiment'[e].status # "running"]_vars

Executing == {i \in DOMAIN requests : requests[i].startedAt # Null /\ ~requests[i].finished}

\* C15: the requests handed to a provider's limiter start executing in exactly
\* the order they were submitted, and at most one of them is executing at any
\* time, whoever submitted them and whether earlier ones resolved or rejected.
C15_FifoOneAtATime ==
    /\ \A k \in DOMAIN startOrder : startOrder[k] = k
    /\ Cardinality(Executing) <= 1

C15_Witness ==
    /\ Len(startOrder) = 3
    /\ requests[1].caller # requests[2].caller
    /\ requests[1].settled = << "rejected", 1 >>
    /\ requests[2].settled = << "resolved", 2 >>
    /\ Executing = {3}

\* C16: the start times of any two consecutive requests executed by the
\* limiter differ by at least its interval, 60000 / requestsPerMinute ms.
C16_MinimumInterval ==
    \A k \in DOMAIN startOrder :
        k > 1 => requests[startOrder[k]].startedAt[1] - requests[startOrder[k - 1]].startedAt[1] >= interval

C16_Witness ==
    /\ Len(startOrder) = 3
    /\ interval = 1000
    /\ requests[2].startedAt[1] - requests[1].startedAt[1] > interval
    /\ requests[3].startedAt[1] - requests[2].startedAt[1] = interval

FairLimiter ==
    /\ SpecLimiter
    /\ WF_vars(Tick /\ UNCHANGED outsideLimiter)
    /\ WF_vars(\E k \in DOMAIN loops : waitElapsed(k) /\ UNCHANGED outsideLimiter)
    /\ WF_vars(\E k \in DOMAIN loops : (fnResolved(k) \/ fnRejected(k)) /\ UNCHANGED outsideLimiter)

\* C17: when time advances and every executed request function eventually
\* resolves or rejects, every request handed to enqueue is eventually executed
\* and its promise settled with that request's own result or error.
C17_NoStarvation ==
    \A i \in 1..MaxRequests :
        (i \in DOMAIN requests) ~>
            (/\ i \in DOMAIN requests
             /\ requests[i].startedAt # Null
             /\ requests[i].settled \in {<< "resolved", i >>, << "rejected", i >>})

C17_Witness ==
    /\ Len(requests) = 3
    /\ \A i \in DOMAIN requests : requests[i].settled # Null
    /\ \E i \in DOMAIN requests : requests[i].settled[1] = "rejected"
    /\ ~processing /\ queue = << >> /\ loops = << >>

\* the place of a sample in the iteration order: index of its model in
\* selectedModels and of its (temperature, topK) in configs, 0 when absent
ModelIndex(exp, modelId) ==
    IF \E j \in 1..Len(exp.selectedModels) : exp.selectedModels[j] = modelId
    THEN CHOOSE j \in 1..Len(exp.selectedModels) : exp.selectedModels[j] = modelId
    ELSE 0

ConfigIndex(exp, sample) ==
    IF \E j \in 1..Len(exp.configs) :
           exp.configs[j] = [temperature |-> sample.temperature, topK |-> sample.topK]
    THEN CHOOSE j \in 1..Len(exp.configs) :
           exp.configs[j] = [temperature |-> sample.temperature, topK |-> sample.topK]
    ELSE 0

LexLess(p, q) ==
    \/ p[1] < q[1]
    \/ p[1] = q[1] /\ p[2] < q[2]
    \/ p[1] = q[1] /\ p[2] = q[2] /\ p[3] < q[3]

\* C18: when a provider call is issued for an experiment, no other call of that
\* experiment is outstanding and the call's (model index, config index,
\* repetition) is lexicographically after that of the previous call; the sample
\* list is ordered by (model index, config index) and every sample carries one
\* of the experiment's configs.
C18_SequentialInOrder ==
    [][\A r \in DOMAIN runs :
        LET e == runs[r].experimentId
            exp == experiment[e]
        IN  /\ (r \in DOMAIN runs' /\ runs'[r].calls > runs[r].calls) =>
                   /\ \A o \in RunsOf(runs, e) : o # r => runs[o].pc # "sampling"
                   /\ runs[r].calls > 0 =>
                          LexLess(<< runs[r].m, runs[r].c, runs[r].i >>,
                                  << runs'[r].m, runs'[r].c, runs'[r].i >>)
            /\ \A k \in DOMAIN runs[r].samples :
                   /\ ConfigIndex(exp, runs[r].samples[k]) # 0
                   /\ k > 1 => ~LexLess(<< ModelIndex(exp, runs[r].samples[k].modelId),
                                           ConfigIndex(exp, runs[r].samples[k]), 0 >>,
                                         << ModelIndex(exp, runs[r].samples[k - 1].modelId),
                                            ConfigIndex(exp, runs[r].samples[k - 1]), 0 >>)]_vars

\* the selected models the loop does not skip as missing from the catalogue
Catalogued(exp) ==
    {j \in 1..Len(exp.selectedModels) : findModelById(exp.selectedModels[j]) # Null}

StepOf(id) ==
    \/ \E apiKeys \in AllKeys : start(id, apiKeys)
    \/ abort(id)
    \/ \E r \in RunsOf(runs, id) :
           \/ startSaved(r) \/ startSaveFailed(r)
           \/ \E word \in Words : sampleResolved(r, word)
           \/ sampleRejected(r) \/ sampleSaved(r) \/ sampleSaveFailed(r) \/ pauseElapsed(r)
           \/ completeExperimentSaved(r) \/ completeResultsSaved(r) \/ completeFailed(r)
           \/ handleErrorSaved(r) \/ handleErrorResultsSaved(r) \/ handleErrorFailed(r)
    \/ \E a \in DOMAIN aborts :
           /\ aborts[a].experimentId = id
           /\ abortSaved(a) \/ abortResultsSaved(a) \/ abortFailed(a)

\* C20: a step made for experiment A (a sample completing, a call failing,
\* abort(), completion, failure, a start()) leaves the Experiment object, the
\* running-set entry, the RunningExperiment with its sample list, and the
\* progress of every other running experiment B as they were.
C20_RunningExperimentsIndependent ==
    [][\A A \in TwoIds, B \in TwoIds :
        (A # B /\ isRunning(B) /\ StepOf(A)) =>
            /\ experiment'[B] = experiment[B]
            /\ runningExperiments'[B] = runningExperiments[B]
            /\ runs'[runningExperiments[B]] = runs[runningExperiments[B]]
            /\ getProgress(B)' = getProgress(B)
            /\ dbExperiments'[B] = dbExperiments[B]
            /\ dbResults'[B] = dbResults[B]]_vars

\* C20 witness: A was cancelled and has left the running set while B, started
\* before A's abort() was called, is still running and has collected a sample.
C20_Witness ==
    \E A \in TwoIds, B \in TwoIds :
        /\ A # B
        /\ experiment[A].status = "cancelled"
        /\ ~isRunning(A)
        /\ \E a \in DOMAIN aborts : aborts[a].experimentId = A /\ aborts[a].pc = "resolved"
        /\ isRunning(B)
        /\ experiment[B].status = "running"
        /\ Len(runs[runningExperiments[B]].samples) = 1

getRunningExperiments == {e \in DOMAIN runningExperiments : runningExperiments[e] # 0}

\* C22: in every state, the experiment is in the running set, with a progress
\* to read and listed among the running ids, exactly when its status is
\* running; with a status completed, failed or cancelled no progress is
\* observable.
C22_ProgressExactlyWhileRunning ==
    \A e \in Ids :
        /\ isRunning(e) <=> experiment[e].status = "running"
        /\ getProgress(e) # Null <=> experiment[e].status = "running"
        /\ e \in getRunningExperiments <=> experiment[e].status = "running"

C21_SnapshotIsImmutable ==
    [][/\ ((\E word \in Words : sampleCounted(word)) \/ (\E c \in 1..2 : enterConfig(c))) =>
              \A s \in DOMAIN snapshots :
                  View(snapshots'[s], arrays', objects') = View(snapshots[s], arrays, objects)
       /\ \A s \in DOMAIN snapshots :
              (callerAssigns(s) \/ callerEditsConfig(s) \/ \E word \in Words : callerPushes(s, word)) =>
                  /\ View(progressObj'[1], arrays', objects') = View(progressObj[1], arrays, objects)
                  /\ \A t \in DOMAIN snapshots : t # s =>
                         View(snapshots'[t], arrays', objects') = View(snapshots[t], arrays, objects)]_vars

\* C24: autoSubmitExperiment is called only in the step in which
\* completeExperiment's saveResults resolves, for an experiment whose status is
\* completed, not cancelled or failed, and whose results are stored; the
\* answer to the submission, or its failure, changes nothing in the runner.
C24_SubmissionOnlyAfterNormalCompletion ==
    [][/\ Len(submissions') > Len(submissions) =>
              \E r \in DOMAIN runs :
                  /\ completeResultsSaved(r)
                  /\ experiment'[runs[r].experimentId].status = "completed"
                  /\ submissions'[Len(submissions')].status = "completed"
                  /\ dbResults'[runs[r].experimentId] # Null
       /\ \A s \in DOMAIN submissions :
              (submitResolved(s) \/ submitFailed(s)) => UNCHANGED runnerVars]_vars

\* C25: for every sample list the aggregate's counts add up: the counts of
\* topWords sum to totalSamples, uniqueWords is the number of topWords entries,
\* the byModel group sizes sum to totalSamples, the counts of all byTemperature
\* groups sum to totalSamples, and inside each byModel / byTemperature group
\* the counts sum to the number of samples of that group.
C25_AggregateSumsAgree ==
    LET RECURSIVE SumGroupSizes(_)
        SumGroupSizes(groups) ==
            IF groups = << >> THEN 0 ELSE groups[1].totalSamples + SumGroupSizes(Tail(groups))
        RECURSIVE SumCountsOver(_, _)
        SumCountsOver(byTemperature, temps) ==
            IF temps = {} THEN 0
            ELSE LET t == CHOOSE x \in temps : TRUE
                 IN  SumCounts(byTemperature[t]) + SumCountsOver(byTemperature, temps \ {t})
        SizeOfModel(m) == Cardinality({i \in 1..Len(input) : input[i].modelId = m})
        SizeOfTemperature(t) == Cardinality({i \in 1..Len(input) : input[i].temperature = t})
    IN  \A k \in DOMAIN output :
            LET res == output[k]
            IN  /\ res.totalSamples = Len(input)
                /\ SumCounts(res.topWords) = res.totalSamples
                /\ res.uniqueWords = Len(res.topWords)
                /\ SumGroupSizes(res.byModel) = res.totalSamples
                /\ SumCountsOver(res.byTemperature, DOMAIN res.byTemperature) = res.totalSamples
                /\ \A g \in DOMAIN res.byModel :
                       /\ res.byModel[g].totalSamples = SizeOfModel(res.byModel[g].modelId)
                       /\ SumCounts(res.byModel[g].words) = res.byModel[g].totalSamples
                       /\ res.byModel[g].uniqueWords = Len(res.byModel[g].words)
                /\ \A t \in DOMAIN res.byTemperature :
                       SumCounts(res.byTemperature[t]) = SizeOfTemperature(t)

\* a list of four samples of two models and two temperatures with a repeated word was aggregated
C25_Witness ==
    /\ Len(input) = MaxAggregated
    /\ output # << >>
    /\ Len(output[1].byModel) = 2
    /\ Cardinality(DOMAIN output[1].byTemperature) = 2
    /\ output[1].uniqueWords = 2
    /\ output[1].topWords[1].count = 3

\* C26: topWords and every per-model and per-temperature word list are sorted
\* by count in non-increasing order with words of equal count in the order of
\* their first occurrence in the sample list, and aggregating the same list a
\* second time returns the same results.
C26_StableDescendingOrder ==
    LET SortedStably(fs, samples) ==
            LET First(w) == CHOOSE i \in 1..Len(samples) :
                                /\ samples[i].word = w
                                /\ \A j \in 1..(i - 1) : samples[j].word # w
            IN  \A i, j \in DOMAIN fs :
                    i < j => /\ fs[i].count >= fs[j].count
                             /\ fs[i].count = fs[j].count => First(fs[i].word) < First(fs[j].word)
    IN  /\ \A k \in DOMAIN output :
               LET res == output[k]
               IN  /\ SortedStably(res.topWords, input)
                   /\ \A g \in DOMAIN res.byModel :
                          LET P(s) == s.modelId = res.byModel[g].modelId
                          IN  SortedStably(res.byModel[g].words, SelectSeq(input, P))
                   /\ \A t \in DOMAIN res.byTemperature :
                          LET P(s) == s.temperature = t
                          IN  SortedStably(res.byTemperature[t], SelectSeq(input, P))
        /\ \A k1, k2 \in DOMAIN output : output[k1] = output[k2]

\* a list aggregated twice in which the first word seen is overtaken by a more
\* frequent one and two words tie
C26_Witness ==
    /\ Len(output) = 2
    /\ Len(input) = MaxAggregated
    /\ output[1].uniqueWords = 3
    /\ output[1].topWords[1].word # input[1].word
    /\ output[1].topWords[2].count = output[1].topWords[3].count
    /\ output[1].topWords[2].word = input[1].word

\* C27: aggregating an empty sample list returns (does not throw) totalSamples
\* = 0, uniqueWords = 0, topWords = [], entropy = 0, byModel = [] and a
\* byTemperature mapping with no key.
C27_EmptyListAggregates ==
    input = << >> =>
        \A k \in DOMAIN output :
            /\ output[k].totalSamples = 0
            /\ output[k].uniqueWords = 0
            /\ output[k].topWords = << >>
            /\ output[k].entropy = 0
            /\ output[k].byModel = << >>
            /\ DOMAIN output[k].byTemperature = {}

\* generateResults has returned for the empty list
C27_Witness ==
    /\ input = << >>
    /\ Len(output) >= 1
    /\ output[1].experimentId = "e1"

\* the words of a sample list, and whether they all occur equally often
DistinctWords(samples) == {samples[i].word : i \in 1..Len(samples)}

EquallyFrequent(samples) ==
    \A v, w \in DistinctWords(samples) : CountWord(samples, v) = CountWord(samples, w)

\* C28 as stated: for every sample list the entropy is >= 0, it is 0 if and only
\* if exactly one distinct word occurs, and it is log2(k) when k distinct words
\* occur equally often.
C28_EntropyZeroIffOneWord ==
    \A k \in DOMAIN output :
        /\ output[k].entropy >= 0
        /\ output[k].entropy = 0 <=> Cardinality(DistinctWords(input)) = 1
        /\ (input # << >> /\ EquallyFrequent(input)) =>
               output[k].entropy = Log2Milli[Cardinality(DistinctWords(input))]

\* C28: for every sample list the entropy is >= 0, it is 0 if and only if at
\* most one distinct word occurs (the empty list included), and it is log2(k)
\* when k >= 1 distinct words occur equally often.
C28_EntropyZeroIffAtMostOneWord ==
    \A k \in DOMAIN output :
        /\ output[k].entropy >= 0
        /\ output[k].entropy = 0 <=> Cardinality(DistinctWords(input)) <= 1
        /\ (input # << >> /\ EquallyFrequent(input)) =>
               output[k].entropy = Log2Milli[Cardinality(DistinctWords(input))]

\* two words with two samples each were aggregated: one bit
C28_Witness ==
    /\ output # << >>
    /\ Len(input) = 4
    /\ Cardinality(DistinctWords(input)) = 2
    /\ EquallyFrequent(input)
    /\ output[1].entropy = 1000

\* C29: for every range (min, max, steps) with max > min, steps = 1 yields
\* exactly [min], and steps = n > 1 yields exactly n strictly increasing values
\* whose first element is min, whose last element is max, and whose i-th
\* element is min + i * (max - min) / (n - 1) (checked where that is an integer).
C29_RangeSpansMinToMax ==
    \A k \in DOMAIN output :
        LET r == output[k]
            n == input.steps
        IN  /\ n = 1 => r = << ToNumber(input.min) >>
            /\ n > 1 =>
                   /\ Len(r) = n
                   /\ \A i, j \in 1..n : i < j => Less(r[i], r[j])
                   /\ r[1] = ToNumber(input.min)
                   /\ r[n] = ToNumber(input.max)
                   /\ \A i \in 0..(n - 1) :
                          (i * (input.max - input.min)) % (n - 1) = 0 =>
                              r[i + 1] = ToNumber(input.min + (i * (input.max - input.min)) \div (n - 1))

\* C30: the generated config list is the Cartesian product of the temperature
\* values and the top-K values with temperature as the outer and top-K as the
\* inner index (a single-mode axis contributes its one value), its length is
\* |temps| x |topKs|, two calls with the same builder state give the same list,
\* and the created experiment's totalCalls is |selectedModels| x |configs| x
\* samplesPerConfig.
C30_ConfigsAreTheProduct ==
    LET temps == IF input.temperatureMode = "range"
                 THEN generateRange(input.temperatureMin, input.temperatureMax, input.temperatureSteps)
                 ELSE << ToNumber(input.temperatureSingle) >>
        topKs == IF input.topKMode = "range"
                 THEN generateRange(input.topKMin, input.topKMax, input.topKSteps)
                 ELSE << ToNumber(input.topKSingle) >>
    IN  \A k \in DOMAIN output :
            LET exp == output[k].experiment
            IN  /\ Len(exp.configs) = Len(temps) * Len(topKs)
                /\ \A i \in DOMAIN temps, j \in DOMAIN topKs :
                       exp.configs[(i - 1) * Len(topKs) + j] = [temperature |-> temps[i], topK |-> topKs[j]]
                /\ exp.totalCalls = Len(exp.selectedModels) * Len(exp.configs) * exp.samplesPerConfig
                /\ exp.selectedModels = input.selectedModels
                /\ exp.samplesPerConfig = input.samplesPerConfig
                /\ \A l \in DOMAIN output : output[l].experiment.configs = exp.configs

\* two experiments were created from a builder state with both axes ranging
\* over more than one value, 3 x 2 configs for two models
C30_Witness ==
    /\ Len(output) = 2
    /\ output[1].pc = "returned"
    /\ input.temperatureMode = "range"
    /\ input.topKMode = "range"
    /\ Len(output[1].experiment.configs) = 6
    /\ input.temperatureSteps = 3
    /\ output[1].experiment.configs[2].topK # output[1].experiment.configs[1].topK
    /\ output[1].experiment.totalCalls = 1200

\* C31: every ExperimentConfig produced by the config expansion has an integer
\* topK, for every top-K range with integer min and max.
C31_TopKIsInteger ==
    LET IsInteger(x) == x = Zero \/ x.e >= 0 \/ ShiftRight(x.m, 0 - x.e).exact
    IN  \A k \in DOMAIN output :
            \A c \in DOMAIN output[k].experiment.configs :
                IsInteger(output[k].experiment.configs[c].topK)

\* C32: for every model of the provider catalogue the cost estimated through
\* the registry is inputTokens x inputCostPer1k / 1000 + outputTokens x
\* outputCostPer1k / 1000 with the catalogue's prices of that model, and for a
\* model or provider that is not known the estimate is 0.
C32_EstimateUsesCataloguePrices ==
    \A k \in DOMAIN output :
        /\ (input.model \in DOMAIN PROVIDER_DATA
            /\ input.providerId = PROVIDER_DATA[input.model].providerId) =>
               output[k] = input.inputTokens * PROVIDER_DATA[input.model].inputCostPer1k
                           + input.outputTokens * PROVIDER_DATA[input.model].outputCostPer1k
        /\ (input.model \notin DOMAIN PROVIDER_DATA \/ input.providerId \notin ProviderIds) =>
               output[k] = 0

\* C33: word normalization returns the first non-empty whitespace-delimited
\* token of the text left after removing every character that is not a word
\* character, whitespace, hyphen or apostrophe, in lower case; it fails if and
\* only if no non-empty token remains, and it never returns an empty string.
C33_FirstNonEmptyToken ==
    LET Kept(c) == c # "!"
        stripped == SelectSeq(input, Kept)
        inner == {i \in DOMAIN stripped : stripped[i] # " "}
        from == CHOOSE i \in inner : \A j \in inner : i <= j
        upTo == CHOOSE i \in from..Len(stripped) :
                    /\ \A j \in from..i : stripped[j] # " "
                    /\ i = Len(stripped) \/ stripped[i + 1] = " "
        expected == [i \in 1..(upTo - from + 1) |->
                        IF stripped[from + i - 1] = "B" THEN "b" ELSE stripped[from + i - 1]]
    IN  \A k \in DOMAIN output :
            /\ "thrown" \in DOMAIN output[k] <=> inner = {}
            /\ "word" \in DOMAIN output[k] => output[k].word # << >>
            /\ inner # {} => ("word" \in DOMAIN output[k] /\ output[k].word = expected)

\* C34: after n successful samples recentWords holds exactly the last
\* min(10, n) sampled words, most recent first, and never more than 10.
C34_RecentWordsAreTheLastTen ==
    LET n == Len(input)
    IN  /\ Len(output) = IF n < 10 THEN n ELSE 10
        /\ \A i \in DOMAIN output : output[i] = input[n + 1 - i]

\* twelve words were sampled, the two oldest have left the buffer
C34_Witness ==
    /\ Len(input) = 12
    /\ Len(output) = 10
    /\ input[1] # input[3]
    /\ output[10] = input[3]

\* C35: at every await boundary the task's progress counters agree with its
\* in-memory sample list (completedCalls is the length of the list, runningCost
\* the sum of its costs), and when an experiment that was not cancelled
\* completes normally, the actualCost recorded is the last runningCost and the
\* totalSamples of the stored report is the last completedCalls.
C35_CountersFollowSamples ==
    [][\A r \in DOMAIN runs' :
        /\ runs'[r].progress.completedCalls = Len(runs'[r].samples)
        /\ runs'[r].progress.runningCost = SumCost(runs'[r].samples)
        /\ (r \in DOMAIN runs /\ completeResultsSaved(r) /\ ~runs[r].aborted) =>
               LET e == runs[r].experimentId
               IN  /\ experiment'[e].actualCost = << runs[r].progress.runningCost >>
                   /\ dbResults'[e] # Null
                   /\ dbResults'[e][1].totalSamples = runs[r].progress.completedCalls]_vars

\* C36: for every experiment in a terminal status that has a stored report, the
\* report's totalSamples is the number of samples in sample storage for that id
\* and actualCost is the sum of their costs; no sample is stored or appended
\* after the report and actualCost were computed.
C36_ReportMatchesStoredSamples ==
    \A e \in Ids :
        (experiment[e].status \in Terminal /\ dbResults[e] # Null) =>
            LET stored == SelectSeq(dbSamples, LAMBDA s : s.experimentId = e)
            IN  /\ dbResults[e][1].totalSamples = Len(stored)
                /\ experiment[e].actualCost = << SumCost(stored) >>

\* the steps of the runner's tasks when storage never rejects: every await of
\* a persistence call resumes with success, every provider call resolves or
\* rejects, every pause ends
loopStep ==
    \/ \E r \in DOMAIN runs, word \in Words : sampleResolved(r, word) /\ UNCHANGED << submissions, outsideRunner >>
    \/ \E r \in DOMAIN runs : sampleRejected(r) /\ UNCHANGED << submissions, outsideRunner >>
    \/ \E r \in DOMAIN runs : sampleSaved(r) /\ UNCHANGED << submissions, outsideRunner >>
    \/ \E r \in DOMAIN runs : pauseElapsed(r) /\ UNCHANGED << submissions, outsideRunner >>
    \/ \E r \in DOMAIN runs : completeExperimentSaved(r) /\ UNCHANGED << submissions, outsideRunner >>
    \/ \E r \in DOMAIN runs : completeResultsSaved(r) /\ UNCHANGED outsideRunner

taskStep ==
    \/ \E r \in DOMAIN runs : startSaved(r) /\ UNCHANGED << submissions, outsideRunner >>
    \/ loopStep
    \/ \E a \in DOMAIN aborts : abortSaved(a) /\ UNCHANGED << submissions, outsideRunner >>
    \/ \E a \in DOMAIN aborts : abortResultsSaved(a) /\ UNCHANGED << submissions, outsideRunner >>

\* the provider calls of one more run of experiment e are within MaxIssuedCalls
WithinBudget(e) == (Len(runs) + 1) * experiment[e].totalCalls <= MaxIssuedCalls

\* start() and abort() are called at any time, or never
NextReliable ==
    \/ \E e \in Ids, apiKeys \in KeyMaps :
           WithinBudget(e) /\ start(e, apiKeys) /\ UNCHANGED << submissions, outsideRunner >>
    \/ \E e \in Ids : abort(e) /\ UNCHANGED << submissions, outsideRunner >>
    \/ taskStep

SpecReliable == Init /\ [][NextReliable]_vars /\ WF_vars(taskStep)

\* C37: with storage that always succeeds, provider calls that settle and tasks
\* that keep being scheduled, an experiment entered in the running set by
\* start() is eventually in a terminal status and out of the running set,
\* whenever abort() is called.
C37_EveryStartedExperimentEnds ==
    \A e \in Ids :
        isRunning(e) ~> (experiment[e].status \in Terminal /\ ~isRunning(e))

\* C38: an id is never left in the running set with no task alive for it: while
\* the id is in the set, a start(), an execution task, a completion, an error
\* handler or an abort() for that id is still suspended at an await, also after
\* a rejected saveExperiment in start(), handleError or abort().
C38_NoEntryWithoutTask ==
    \A e \in Ids :
        isRunning(e) =>
            \/ \E r \in DOMAIN runs : runs[r].experimentId = e /\ runs[r].pc \notin EndedPcs
            \/ \E a \in DOMAIN aborts : aborts[a].experimentId = e /\ aborts[a].pc \in AwaitingInAbort

\* the interval of every limiter the provider has had so far
Intervals == {interval} \cup {replacedLimiters[j].interval : j \in DOMAIN replacedLimiters}

\* C39: whenever setRateLimit is called, with requests queued or executing or
\* not, at no time are two requests to the provider executing together, and the
\* start times of two requests started one after the other differ by at least
\* an interval that applied (the shortest the provider has had).
C39_SerialAcrossReconfiguration ==
    /\ Cardinality(Executing) <= 1
    /\ \A k \in DOMAIN startOrder :
           k > 1 => \E applicable \in Intervals :
                        requests[startOrder[k]].startedAt[1]
                            - requests[startOrder[k - 1]].startedAt[1] >= applicable

(***************************************************************************)
(* The application around the runner (App.tsx): currentExperiment and      *)
(* runProgress, the handlers that start and stop an experiment and the     *)
(* polling effect.  Of an Experiment object held in React state the        *)
(* application reads id and status.                                        *)
(***************************************************************************)
outsideApp == << submissions, limiterVars, snapshotVars, pureVars >>

\* handleRunExperiment up to `await experimentRunner.start(...)`, for the
\* experiment handleCreateExperiment has just created
handleRunExperiment(e, apiKeys) ==
    /\ IF currentExperiment = Null THEN TRUE ELSE currentExperiment[1].status # "running"
    /\ experiment[e].status = "pending"
    /\ WithinBudget(e)
    /\ UNCHANGED appVars
    /\ start(e, apiKeys)

\* start() resolves: setCurrentExperiment({ ...experiment, status: 'running' })
runStarted(r) ==
    /\ currentExperiment' = << [id |-> runs[r].experimentId, status |-> "running"] >>
    /\ UNCHANGED runProgress
    /\ startSaved(r)

\* the setInterval callback of the polling effect, installed while the status of
\* currentExperiment is running
pollProgress ==
    /\ currentExperiment # Null
    /\ currentExperiment[1].status = "running"
    /\ runProgress' = getProgress(currentExperiment[1].id)
    /\ UNCHANGED currentExperiment

\* handleStopExperiment up to `await experimentRunner.abort(...)`; the stop
\* button is shown with the progress of a running experiment
handleStopExperiment ==
    /\ currentExperiment # Null
    /\ currentExperiment[1].status = "running"
    /\ runProgress # Null
    /\ UNCHANGED appVars
    /\ abort(currentExperiment[1].id)

\* a save of abort() resolves; when abort() resolves with it,
\* setCurrentExperiment({ ...currentExperiment, status: 'cancelled' }) and the
\* polling effect clears runProgress
stopSaved(a) ==
    /\ abortSaved(a) \/ abortResultsSaved(a)
    /\ IF aborts'[a].pc = "resolved"
       THEN /\ currentExperiment' = << [id |-> aborts[a].experimentId, status |-> "cancelled"] >>
            /\ runProgress' = Null
       ELSE UNCHANGED appVars

appStep ==
    \/ \E r \in DOMAIN runs : runStarted(r) /\ UNCHANGED outsideApp
    \/ loopStep
    \/ \E a \in DOMAIN aborts : stopSaved(a) /\ UNCHANGED outsideApp
    \/ pollProgress /\ UNCHANGED << runnerVars, outsideApp >>

NextApp ==
    \/ \E e \in Ids, apiKeys \in KeyMaps : handleRunExperiment(e, apiKeys) /\ UNCHANGED outsideApp
    \/ handleStopExperiment /\ UNCHANGED outsideApp
    \/ appStep

SpecApp ==
    /\ Init
    /\ [][NextApp]_vars
    /\ WF_vars(appStep)
    /\ WF_vars(pollProgress /\ UNCHANGED << runnerVars, outsideApp >>)

\* C40: once the runner has finished an experiment started through
\* handleRunExperiment (status completed, report stored, id out of the running
\* set), the status of the application's currentExperiment eventually becomes
\* completed.
C40_PollingSeesCompletion ==
    \A e \in Ids :
        (/\ currentExperiment # Null
         /\ currentExperiment[1].id = e
         /\ experiment[e].status = "completed"
         /\ dbResults[e] # Null
         /\ ~isRunning(e))
            ~> (currentExperiment # Null /\ currentExperiment[1].status = "completed")

====
